---- MODULE Spec2Model ----
(***************************************************************************)
(* Model of the durable OCR job pipeline `processOcrJob` (adaptive batch   *)
(* submission, completion polling, result reconciliation, document         *)
(* assembly) together with the job ledger row, the Frame rows, the         *)
(* inference provider's batches and the workflow runtime's step memo.      *)
(*                                                                         *)
(* Work items are identified by their position 0..n-1 in the sorted        *)
(* cropsMeta list; an item's filename is represented by that position.     *)
(* Arrays are TLA+ sequences (1-based); array indices kept by the code     *)
(* (batchIndex, globalStartIndex, frame index) stay 0-based.               *)
(***************************************************************************)
EXTENDS Integers, Sequences, FiniteSets, TLC

\* ---------------------------------------------------------------- bounds
SmallArchive == 2
MidArchive == 101
MaxItems == 520
MaxInvocations == 2
MaxSleeps == 1
MaxFaults == 1
MaxRejectingSteps == 1
MaxCrashes == 1

\* ------------------------------------------------------ program constants
BATCH_SIZE == 500
BATCH_SIZE_REDUCTION_STEPS == <<500, 400, 300, 200, 100, 50>>

ArchiveSizes == {0, SmallArchive, MidArchive, MaxItems}

\* ---------------------------------------------------------------- helpers
Min(a, b) == IF a < b THEN a ELSE b

CeilDiv(a, b) == (a + b - 1) \div b

\* Array.prototype.slice(from, to): 0-based, `to` exclusive, clamped.
Slice(arr, from, to) == SubSeq(arr, from + 1, Min(to, Len(arr)))

SliceFrom(arr, from) == SubSeq(arr, from + 1, Len(arr))

\* Array.prototype.indexOf on the ladder; -1 when absent.
IndexOf(arr, x) ==
  IF \E i \in 1..Len(arr) : arr[i] = x
  THEN (CHOOSE i \in 1..Len(arr) : arr[i] = x /\ \A j \in 1..(i - 1) : arr[j] # x) - 1
  ELSE -1

chunkArray(array, chunkSize) ==
  [c \in 1..CeilDiv(Len(array), chunkSize) |->
     Slice(array, (c - 1) * chunkSize, c * chunkSize)]

\* arr.splice(start, arr.length - start, ...items)
SpliceTail(arr, start, items) == SubSeq(arr, 1, start) \o items

Range(s) == {s[i] : i \in 1..Len(s)}

\* The sorted manifest written by streamAndProcessZip for n processable entries.
SortedCrops(n) == [i \in 1..n |-> i - 1]

\* Text the model returns for an item whose request succeeds.
ModelText(item) == IF item % 2 = 0 THEN "t" ELSE "<EMPTY>"

\* `job-${jobId}-batch-${batchIndex}-frame-${globalIndex}-${filename}`
CustomId(b, g, filename) == [batch |-> b, frame |-> g, filename |-> filename]

StepRank(s) ==
  CASE s = "PREPROCESSING" -> 0
    [] s = "BATCH_SUBMITTED" -> 1
    [] s = "RESULTS_SAVED" -> 2
    [] s = "DOCS_BUILT" -> 3

buildProgress(total, processed) ==
  [totalImages |-> total, processedImages |-> processed, submittedImages |-> 0,
   totalBatches |-> 0, batchesCompleted |-> 0]

persistProgress(j, p) ==
  [j EXCEPT !.processedImages = p.processedImages,
            !.totalImages = p.totalImages,
            !.totalBatches = p.totalBatches,
            !.batchesCompleted = p.batchesCompleted,
            !.submittedImages = p.submittedImages]

\* The catch handler of processOcrJob.
CatchErrorMessageOnly(j, msg) == [j EXCEPT !.error = msg]

CatchError(j, msg) == [j EXCEPT !.status = "ERROR", !.error = msg]

EmptyMemo ==
  [count |-> FALSE, pre |-> FALSE, create |-> <<>>, wait |-> <<>>, sleep |-> <<>>,
   save |-> FALSE, docs |-> FALSE]

NoStepLocal ==
  [retryAttempt |-> 0, localBatchSize |-> 0, localChunk |-> <<>>, maxRetries |-> 0,
   framesToPersist |-> <<>>, totalProcessedLines |-> 0, retryBatch |-> 0]

NoProgress == buildProgress(0, 0)

\* ------------------------------------------------------------------ state
VARIABLES
  archive,            \* number of processable entries of the uploaded archive
  job,                \* the job ledger row
  frames,             \* the job's Frame rows
  cropsMetaFile,      \* cropsMeta.json on local storage: <<>> when absent, <<list>> when present
  jsonlFiles,         \* paths of the request manifests (.jsonl) on local storage
  memo,               \* the runtime's memoized step results of the current run
  batches,            \* batches created at the inference provider by the current run
  pc,                 \* position of the running function; "idle" when none runs
  run,                \* number of invocations started so far
  resumedFrom,        \* ledger status and step seen when the current invocation started
  entryJob,           \* `job` as read at (re)entry of the function
  progress,           \* ProgressState
  totalImages,
  cropsMeta,
  currentBatchSize,
  cropsChunks,
  totalBatches,
  batchIndex,
  processedItemsCount,
  processedBatches,
  artifacts,          \* provider batch id returned by the create step
  attempt,            \* poll attempt counter
  stepLocal,          \* variables local to a running step callback
  attemptLog,         \* history: every batch creation attempt of the current run
  preprocessRuns,     \* history: executions of streamAndProcessZip over all runs
  reconciled,         \* history: saveBatchResults completed in the current run
  profile,            \* provider behaviour during the current run
  rejectingSteps,     \* create steps of the current run that met a capacity rejection
  sleeps,
  faults,             \* main batches of the current run returned with a faulty output
  event,              \* event.data of the current invocation: userId and zipKey
  apiKey,             \* whether the owner has an active provider key during the run
  crashes,            \* process deaths inside a step callback so far
  reads,              \* history: provider status reads executed by the current run
  entries,            \* entry paths of an uploaded archive, in archive order
  filtered,           \* what streamAndProcessZip made of `entries`
  frameRows,          \* Frame rows as read back by buildDocuments
  paragraphs,         \* what buildParagraphsFromFrames made of `frameRows`
  libPc,              \* "off", or "input" / "done" around one library call
  ocrJobs,            \* the ocr_jobs table when several jobs are considered: jobId -> row
  ocrJobFrames,       \* the ocr_job_frames table of those jobs: rows [jobId, index]
  writer,             \* jobId of the invocation that executed the last statement
  idRequest,          \* job id, batch ordinal, global index and filename of one request line
  idParse             \* the custom_id written for idRequest and what parseCustomId reads from it

tableVars == <<ocrJobs, ocrJobFrames, writer>>
idVars == <<idRequest, idParse>>
libVars == <<entries, filtered, frameRows, paragraphs, libPc, idVars, tableVars>>
ledgerVars == <<archive, libVars, job, frames, cropsMetaFile, jsonlFiles>>
inputVars == <<event, apiKey>>
runtimeVars == <<memo, batches, run, resumedFrom, inputVars>>
localVars == <<entryJob, progress, totalImages, cropsMeta, currentBatchSize, cropsChunks,
               totalBatches, batchIndex, processedItemsCount, processedBatches,
               artifacts, attempt, stepLocal>>
historyVars == <<attemptLog, preprocessRuns, reconciled, profile, rejectingSteps, sleeps, faults,
                 crashes, reads>>
vars == <<ledgerVars, runtimeVars, localVars, historyVars, pc>>

\* A field of event.data that the sender left out.
Undefined == "undefined"

\* The event sent when the archive was uploaded.
UploadEvent == [userId |-> "user", zipKey |-> "zips/job.zip"]

\* The row inserted when the archive is uploaded (schema defaults).
NewJob ==
  [status |-> "PENDING", step |-> "PREPROCESSING", error |-> "",
   totalImages |-> 0, processedImages |-> 0, submittedImages |-> 0,
   totalBatches |-> 0, batchesCompleted |-> 0,
   zipPath |-> "zips/job.zip", txtPath |-> FALSE, docxPath |-> FALSE]

\* The jobs of the shared tables.
JobIds == {"jobA", "jobB"}

NoIdRequest == [jobId |-> <<>>, batchIndex |-> 0, globalIndex |-> 0, filename |-> <<>>]

NoIdParse == [customId |-> <<>>, matched |-> FALSE, index |-> 0, filename |-> <<>>]

\* No function is running and nothing was recorded for the job yet.
PipelineIdle ==
  /\ ocrJobs = [k \in JobIds |-> NewJob]
  /\ ocrJobFrames = {}
  /\ writer = "none"
  /\ idParse = NoIdParse
  /\ job = NewJob
  /\ frames = <<>>
  /\ cropsMetaFile = <<>>
  /\ jsonlFiles = {}
  /\ memo = EmptyMemo
  /\ batches = <<>>
  /\ pc = "idle"
  /\ run = 0
  /\ resumedFrom = [status |-> "PENDING", step |-> "PREPROCESSING"]
  /\ entryJob = NewJob
  /\ progress = NoProgress
  /\ totalImages = 0
  /\ cropsMeta = <<>>
  /\ currentBatchSize = 0
  /\ cropsChunks = <<>>
  /\ totalBatches = 0
  /\ batchIndex = 0
  /\ processedItemsCount = 0
  /\ processedBatches = <<>>
  /\ artifacts = 0
  /\ attempt = 0
  /\ stepLocal = NoStepLocal
  /\ attemptLog = <<>>
  /\ preprocessRuns = 0
  /\ reconciled = FALSE
  /\ profile = "reliable"
  /\ rejectingSteps = 0
  /\ sleeps = 0
  /\ faults = 0
  /\ event = UploadEvent
  /\ apiKey = TRUE
  /\ crashes = 0
  /\ reads = <<>>

NoFiltered == [archive |-> <<>>, cropsMeta |-> <<>>, totalImages |-> 0]

Init ==
  /\ archive \in ArchiveSizes
  /\ PipelineIdle
  /\ entries = <<>> /\ filtered = NoFiltered
  /\ frameRows = <<>> /\ paragraphs = <<>>
  /\ libPc = "off"
  /\ idRequest = NoIdRequest

\* Locals of a function execution that has not yet passed any step.
ResetLocals ==
  /\ progress' = NoProgress
  /\ totalImages' = 0
  /\ cropsMeta' = <<>>
  /\ currentBatchSize' = 0
  /\ cropsChunks' = <<>>
  /\ totalBatches' = 0
  /\ batchIndex' = 0
  /\ processedItemsCount' = 0
  /\ processedBatches' = <<>>
  /\ artifacts' = 0
  /\ attempt' = 0
  /\ stepLocal' = NoStepLocal

\* The function returned or threw: no execution is active any more.
EndRun ==
  /\ pc' = "idle"
  /\ entryJob' = NewJob
  /\ ResetLocals

\* Entry short-circuit: documents already built.
AlreadyCompleted(j) ==
  /\ j.step \in {"DOCS_BUILT", "RESULTS_SAVED"}
  /\ j.txtPath
  /\ j.docxPath

\* `zipKey ?? job.zipPath`
storageZipKey(ev, j) == IF ev.zipKey # Undefined THEN ev.zipKey ELSE j.zipPath

\* Function entry up to the first step (lines 955-1034): check the owner id,
\* get the owner's provider client, read the job row, check the archive
\* pointer, short-circuit or go on.
EnterFunction(ev, key) ==
  /\ ResetLocals
  /\ IF ev.userId \in {"", Undefined}
     THEN /\ job' = [job EXCEPT !.status = "ERROR", !.error = "UserId missing in event data"]
          /\ pc' = "idle" /\ entryJob' = NewJob
     ELSE IF ~key
     THEN /\ job' = CatchError(job, "User does not have an active OpenAI API key configured")
          /\ pc' = "idle" /\ entryJob' = NewJob
     ELSE IF storageZipKey(ev, job) = ""
     THEN /\ job' = job
          /\ pc' = "idle" /\ entryJob' = NewJob
     ELSE IF AlreadyCompleted(job)
     THEN /\ job' = job
          /\ pc' = "idle" /\ entryJob' = NewJob
     ELSE /\ job' = job
          /\ pc' = "count" /\ entryJob' = job

\* Provider behaviour explored for a run.  "capacity": submissions may be
\* rejected with a capacity signal; "lossy": batches may be slow, fail, or
\* return error lines and drop lines; "hostile": both; "reliable": neither.
\* Large archives are explored under one kind of misbehaviour at a time and
\* re-invocations under a reliable provider.
Profiles(r, n) ==
  IF r > 0 THEN {"reliable"}
  ELSE IF n > MidArchive THEN {"capacity", "lossy"}
  ELSE {"hostile"}

MayReject == profile \in {"capacity", "hostile"}

MayFault(isRetry) == profile \in {"lossy", "hostile"} \/ (profile = "capacity" /\ isRetry)

MayDelayOrFail == profile \in {"lossy", "hostile"}

\* A batch may still be in progress when the poll loop reads its status.
MayDelay == MayDelayOrFail \/ profile = "slow"

\* The events explored: the upload event, one without owner id, one with an
\* empty archive key and, for small archives, one that leaves the key to the
\* job row.
Events(n) ==
  {UploadEvent,
   [userId |-> Undefined, zipKey |-> "zips/job.zip"],
   [userId |-> "user", zipKey |-> ""]}
    \cup (IF n <= SmallArchive THEN {[userId |-> "user", zipKey |-> Undefined]} ELSE {})

\* A new event for the job starts a new run with an empty step memo.
InvokeWith(profiles, events, keys) ==
  /\ pc = "idle"
  /\ run < MaxInvocations
  /\ run' = run + 1
  /\ memo' = EmptyMemo
  /\ batches' = <<>>
  /\ resumedFrom' = [status |-> job.status, step |-> job.step]
  /\ attemptLog' = <<>>
  /\ reconciled' = FALSE
  /\ profile' \in profiles
  /\ rejectingSteps' = 0
  /\ sleeps' = 0
  /\ faults' = 0
  /\ reads' = <<>>
  /\ event' \in events
  /\ apiKey' \in keys
  /\ EnterFunction(event', apiKey')
  /\ UNCHANGED <<archive, libVars, frames, cropsMetaFile, jsonlFiles, preprocessRuns, crashes>>

Invoke == InvokeWith(Profiles(run, archive), Events(archive), BOOLEAN)

\* Step boundaries at which the runtime may re-execute the function body
\* from the top with the memoized step results.
ReplayPoints == {"pre", "create", "created", "wait", "sleep", "save", "docs"}

Replay ==
  /\ pc \in ReplayPoints
  /\ EnterFunction(event, apiKey)
  /\ UNCHANGED <<archive, libVars, frames, cropsMetaFile, jsonlFiles, runtimeVars, historyVars>>

\* step.run("count-images") and the persistProgress that follows it.
CountImages ==
  /\ pc = "count"
  /\ memo' = [memo EXCEPT !.count = TRUE]
  /\ totalImages' = archive
  /\ progress' = buildProgress(archive, 0)
  /\ job' = [persistProgress(job, buildProgress(archive, 0))
               EXCEPT !.step = "PREPROCESSING", !.status = "PROCESSING"]
  /\ pc' = "pre"
  /\ UNCHANGED <<archive, libVars, frames, cropsMetaFile, jsonlFiles, batches, run, resumedFrom, inputVars, entryJob,
                 cropsMeta, currentBatchSize, cropsChunks, totalBatches, batchIndex,
                 processedItemsCount, processedBatches, artifacts, attempt, stepLocal,
                 historyVars>>

\* step.run(PreprocessImagesAndCrops): streamAndProcessZip uploads the crops,
\* writes the sorted manifest and reports the preprocessed count.
PreprocessImagesAndCrops ==
  /\ pc = "pre"
  /\ ~memo.pre
  /\ memo' = [memo EXCEPT !.pre = TRUE]
  /\ cropsMetaFile' = <<SortedCrops(archive)>>
  /\ preprocessRuns' = preprocessRuns + 1
  /\ progress' = [progress EXCEPT !.processedImages = archive]
  /\ job' = [persistProgress(job, progress')
               EXCEPT !.step = "PREPROCESSING", !.status = "PROCESSING"]
  /\ UNCHANGED <<archive, libVars, frames, jsonlFiles, batches, run, resumedFrom, inputVars, entryJob, totalImages,
                 cropsMeta, currentBatchSize, cropsChunks, totalBatches, batchIndex,
                 processedItemsCount, processedBatches, artifacts, attempt, stepLocal,
                 attemptLog, reconciled, profile, crashes, reads, rejectingSteps, sleeps, faults, pc>>

\* The image transform (or the archive download) throws inside the step.
PreprocessFails ==
  /\ pc = "pre"
  /\ ~memo.pre
  /\ archive > 0
  /\ job' = CatchError(job, "preprocess failed")
  /\ EndRun
  /\ UNCHANGED <<archive, libVars, frames, cropsMetaFile, jsonlFiles, runtimeVars, historyVars>>

\* Lines 1075-1130: record the preprocessing result, load the manifest and
\* set up the submit loop.
AfterPreprocess ==
  /\ pc = "pre"
  /\ memo.pre
  /\ LET p1 == buildProgress(archive, archive)
         j1 == [persistProgress(job, p1)
                  EXCEPT !.step = "BATCH_SUBMITTED", !.status = "PROCESSING"]
     IN IF cropsMetaFile = <<>>
        THEN /\ job' = j1
             /\ EndRun
        ELSE IF Len(cropsMetaFile[1]) = 0
        THEN /\ job' = CatchError(j1, "No crops were generated from the provided ZIP file.")
             /\ EndRun
        ELSE LET chunks == chunkArray(cropsMetaFile[1], BATCH_SIZE)
                 p2 == [p1 EXCEPT !.totalBatches = Len(chunks)]
             IN /\ totalImages' = archive
                /\ cropsMeta' = cropsMetaFile[1]
                /\ currentBatchSize' = BATCH_SIZE
                /\ cropsChunks' = chunks
                /\ totalBatches' = Len(chunks)
                /\ batchIndex' = 0
                /\ processedItemsCount' = 0
                /\ processedBatches' = <<>>
                /\ progress' = p2
                /\ job' = persistProgress(j1, p2)
                /\ pc' = "create"
                /\ UNCHANGED <<entryJob, artifacts, attempt, stepLocal>>
  /\ UNCHANGED <<archive, libVars, frames, cropsMetaFile, jsonlFiles, runtimeVars, historyVars>>

\* getJobBatchJsonlPath(jobId, batchIndex) of utils/paths.ts: the function
\* takes the job id only, so every batch index gives the same path.
getJobBatchJsonlPath(b) == <<"tmp/job-ocr-batch.jsonl">>

\* `getJobBatchJsonlPath(jobId, processedBatches.length) + "-retry"`
retryJsonlPath(n) == getJobBatchJsonlPath(n) \o <<"-retry">>

\* createBatchArtifacts: one request line per crop of the chunk.
BatchLines(b, chunk, globalStartIndex) ==
  [l \in 1..Len(chunk) |-> CustomId(b, globalStartIndex + (l - 1), chunk[l])]

LadderMaxRetries(size) ==
  LET currentBatchSizeIndex == IndexOf(BATCH_SIZE_REDUCTION_STEPS, size)
  IN Len(BATCH_SIZE_REDUCTION_STEPS) - 1
       - (IF currentBatchSizeIndex >= 0 THEN currentBatchSizeIndex ELSE 0)

\* Next smaller ladder size, 0 when there is none.
NextBatchSize(size) ==
  LET currentRetryIndex == IndexOf(BATCH_SIZE_REDUCTION_STEPS, size)
  IN IF currentRetryIndex < Len(BATCH_SIZE_REDUCTION_STEPS) - 1
     THEN BATCH_SIZE_REDUCTION_STEPS[currentRetryIndex + 2]
     ELSE 0

\* The batch creation runs inside step.run keyed by the batch index: a
\* recorded result is returned instead of running the callback again.
CreateStepNotWrapped == FALSE

CreateStepMemoized == Len(memo.create) > batchIndex

\* The create step is not memoized: its callback starts.
BeginCreateBatch ==
  /\ pc = "create"
  /\ batchIndex < Len(cropsChunks)
  /\ ~CreateStepMemoized
  /\ stepLocal' = [stepLocal EXCEPT !.retryAttempt = 0,
                                    !.localBatchSize = currentBatchSize,
                                    !.localChunk = cropsChunks[batchIndex + 1],
                                    !.maxRetries = LadderMaxRetries(currentBatchSize)]
  /\ pc' = "creating"
  /\ UNCHANGED <<ledgerVars, runtimeVars, historyVars, entryJob, progress, totalImages,
                 cropsMeta, currentBatchSize, cropsChunks, totalBatches, batchIndex,
                 processedItemsCount, processedBatches, artifacts, attempt>>

LogAttempt(accepted) ==
  Append(attemptLog, [batchIndex |-> batchIndex, size |-> stepLocal.localBatchSize,
                      chunk |-> stepLocal.localChunk, accepted |-> accepted])

\* The re-partition of lines 1234-1264 after a batch was accepted at a
\* reduced size: the chunk list from batchIndex onwards.
RechunkedChunks ==
  LET originalChunk == cropsChunks[batchIndex + 1]
      processedInThisBatch == Len(stepLocal.localChunk)
      remainingInOriginalChunk == SliceFrom(originalChunk, processedInThisBatch)
      remainingCrops == remainingInOriginalChunk
                          \o SliceFrom(cropsMeta, processedItemsCount + Len(originalChunk))
      newChunks == chunkArray(remainingCrops, stepLocal.localBatchSize)
  IN SpliceTail(cropsChunks, batchIndex, newChunks)

RechunkedTotalBatches ==
  LET remainingItems == Len(cropsMeta) - processedItemsCount - Len(stepLocal.localChunk)
  IN batchIndex + 1 + CeilDiv(remainingItems, stepLocal.localBatchSize)

\* The provider accepts the submission; the step records its result.
CreateAccepted ==
  /\ pc = "creating"
  /\ batches' = Append(batches,
                  [batchIndex |-> batchIndex,
                   lines |-> BatchLines(batchIndex, stepLocal.localChunk, processedItemsCount),
                   status |-> "in_progress", outputFileId |-> FALSE,
                   errPos |-> 0, dropPos |-> 0, retry |-> FALSE])
  /\ artifacts' = Len(batches) + 1
  /\ memo' = [memo EXCEPT !.create = Append(@, Len(batches) + 1),
                          !.wait = Append(@, <<>>),
                          !.sleep = Append(@, 0)]
  /\ attemptLog' = LogAttempt(TRUE)
  /\ IF stepLocal.localBatchSize # currentBatchSize
     THEN /\ cropsChunks' = RechunkedChunks
          /\ currentBatchSize' = stepLocal.localBatchSize
          /\ totalBatches' = RechunkedTotalBatches
          /\ progress' = [progress EXCEPT !.totalBatches = RechunkedTotalBatches]
          /\ job' = persistProgress(job, progress')
     ELSE UNCHANGED <<cropsChunks, currentBatchSize, totalBatches, progress, job>>
  /\ stepLocal' = NoStepLocal
  /\ pc' = "created"
  /\ jsonlFiles' = jsonlFiles \cup {getJobBatchJsonlPath(batchIndex)}
  /\ UNCHANGED <<archive, libVars, frames, cropsMetaFile, run, resumedFrom, inputVars, entryJob, totalImages,
                 cropsMeta, batchIndex, processedItemsCount, processedBatches, attempt,
                 preprocessRuns, reconciled, profile, crashes, reads, rejectingSteps, sleeps, faults>>

\* The provider rejects the submission with a capacity signal
\* (TOKEN_LIMIT_ERROR): step down the ladder or give up.
CreateRejected ==
  /\ pc = "creating"
  /\ MayReject
  /\ stepLocal.retryAttempt = 0 => rejectingSteps < MaxRejectingSteps
  /\ rejectingSteps' = IF stepLocal.retryAttempt = 0 THEN rejectingSteps + 1
                                                      ELSE rejectingSteps
  /\ attemptLog' = LogAttempt(FALSE)
  /\ IF stepLocal.retryAttempt < stepLocal.maxRetries
        /\ NextBatchSize(stepLocal.localBatchSize) # 0
     THEN /\ stepLocal' =
               [stepLocal EXCEPT
                  !.retryAttempt = @ + 1,
                  !.localChunk = Slice(@, 0, NextBatchSize(stepLocal.localBatchSize)),
                  !.localBatchSize = NextBatchSize(@)]
          /\ UNCHANGED <<job, pc, entryJob, progress, totalImages, cropsMeta,
                         currentBatchSize, cropsChunks, totalBatches, batchIndex,
                         processedItemsCount, processedBatches, artifacts, attempt>>
     ELSE /\ job' = CatchError(job, "TOKEN_LIMIT_ERROR")
          /\ EndRun
  /\ jsonlFiles' = jsonlFiles \cup {getJobBatchJsonlPath(batchIndex)}
  /\ UNCHANGED <<archive, libVars, frames, cropsMetaFile, runtimeVars, preprocessRuns, reconciled,
                 profile, crashes, reads, sleeps, faults>>

\* Lines 1270-1278: count the submitted images of the current chunk.
ContinueAfterCreate(batchId) ==
  IF batchIndex + 1 > Len(cropsChunks)
  THEN /\ job' = CatchError(job, "TypeError: cropsChunks[batchIndex] is undefined")
       /\ EndRun
  ELSE /\ progress' = [progress EXCEPT
                         !.submittedImages = @ + Len(cropsChunks[batchIndex + 1])]
       /\ job' = persistProgress(job, progress')
       /\ artifacts' = batchId
       /\ attempt' = 0
       /\ pc' = "wait"
       /\ UNCHANGED <<entryJob, totalImages, cropsMeta, currentBatchSize, cropsChunks,
                      totalBatches, batchIndex, processedItemsCount, processedBatches,
                      stepLocal>>

\* The function goes on in the execution that ran the create step.
AfterCreateBatch ==
  /\ pc = "created"
  /\ ContinueAfterCreate(artifacts)
  /\ UNCHANGED <<archive, libVars, frames, cropsMetaFile, jsonlFiles, runtimeVars, historyVars>>

\* The create step is memoized: its recorded result is returned.
CreateBatchMemoized ==
  /\ pc = "create"
  /\ batchIndex < Len(cropsChunks)
  /\ CreateStepMemoized
  /\ ContinueAfterCreate(memo.create[batchIndex + 1])
  /\ UNCHANGED <<archive, libVars, frames, cropsMetaFile, jsonlFiles, runtimeVars, historyVars>>

\* The provider finishes a batch: completed with an output file (with at most
\* one per-line error on the first line and at most the last line dropped),
\* completed without an output file, failed or cancelled.
ProviderFinishesBatch ==
  /\ pc \in {"wait", "sleep", "saving"}
  /\ \E id \in 1..Len(batches) :
       /\ batches[id].status = "in_progress"
       /\ \/ \E e \in {0, 1}, d \in {0, Len(batches[id].lines)}, o \in BOOLEAN :
               /\ ~o => (e = 0 /\ d = 0)
               /\ (e # 0 \/ d # 0 \/ ~o) =>
                     /\ MayFault(batches[id].retry)
                     /\ ~batches[id].retry => faults < MaxFaults
               /\ faults' = IF (e # 0 \/ d # 0 \/ ~o) /\ ~batches[id].retry
                            THEN faults + 1 ELSE faults
               /\ batches' = [batches EXCEPT ![id].status = "completed",
                                             ![id].outputFileId = o,
                                             ![id].errPos = e, ![id].dropPos = d]
          \/ \E st \in {"failed", "cancelled"} :
               /\ MayDelayOrFail
               /\ batches' = [batches EXCEPT ![id].status = st]
               /\ UNCHANGED faults
  /\ UNCHANGED <<ledgerVars, memo, run, resumedFrom, inputVars, localVars, attemptLog,
                 preprocessRuns, reconciled, profile, crashes, reads, rejectingSteps, sleeps, pc>>

\* checkBatchStatus: the provider's status and output file pointer.
checkBatchStatus(batchId) ==
  [status |-> batches[batchId].status, outputFileId |-> batches[batchId].outputFileId]

\* The poll loop's test for a batch that ended without an output.
IsFatalStatusFailedOnly(st) == st = "failed"

IsFatalStatus(st) == st = "failed" \/ st = "cancelled"

\* A poll result on which the poll loop breaks or throws.
PollEndsLoop(st) ==
  (st.status = "completed" /\ st.outputFileId) \/ IsFatalStatus(st.status)

\* The status read runs inside step.run keyed by batch index and attempt: a
\* recorded result is returned instead of reading the provider again.
WaitStepNotWrapped == FALSE

WaitStepMemoized == Len(memo.wait[batchIndex + 1]) > attempt

\* step.run(WaitBatchCompletion-b-attempt): checkBatchStatus, memoized per
\* attempt, and the branch on its result (lines 1291-1357).
WaitBatchCompletion ==
  /\ pc = "wait"
  /\ \/ WaitStepMemoized
     \/ PollEndsLoop(checkBatchStatus(artifacts))
     \/ sleeps < MaxSleeps /\ (MayDelay \/ batches[artifacts].status # "in_progress")
  /\ reads' = IF WaitStepMemoized THEN reads ELSE Append(reads, <<batchIndex, attempt>>)
  /\ LET recorded == memo.wait[batchIndex + 1]
         batchStatus == IF WaitStepMemoized
                        THEN recorded[attempt + 1]
                        ELSE checkBatchStatus(artifacts)
         memoNow == IF WaitStepMemoized
                    THEN memo
                    ELSE [memo EXCEPT !.wait[batchIndex + 1] = Append(@, batchStatus)]
     IN CASE batchStatus.status = "completed" /\ batchStatus.outputFileId ->
               /\ memo' = memoNow
               /\ progress' = [progress EXCEPT !.batchesCompleted = @ + 1]
               /\ job' = persistProgress(job, progress')
               /\ processedBatches' = Append(processedBatches,
                                        [batchId |-> artifacts, batchIndex |-> batchIndex])
               /\ processedItemsCount' = processedItemsCount + Len(cropsChunks[batchIndex + 1])
               /\ batchIndex' = batchIndex + 1
               /\ pc' = "create"
               /\ UNCHANGED <<entryJob, totalImages, cropsMeta, currentBatchSize, cropsChunks,
                              totalBatches, artifacts, attempt, stepLocal>>
          [] IsFatalStatus(batchStatus.status) ->
               /\ memo' = memoNow
               /\ job' = CatchError(job, "Batch failed")
               /\ EndRun
          [] OTHER ->
               /\ memo' = memoNow
               /\ pc' = "sleep"
               /\ UNCHANGED <<job, localVars>>
  /\ UNCHANGED <<archive, libVars, frames, cropsMetaFile, jsonlFiles, batches, run, resumedFrom, inputVars,
                 attemptLog, preprocessRuns, reconciled, profile, rejectingSteps, sleeps,
                 faults, crashes>>

\* step.sleep(WaitBatchCompletion-jobId-b-attempt), memoized per attempt.
SleepBeforeNextCheck ==
  /\ pc = "sleep"
  /\ IF memo.sleep[batchIndex + 1] > attempt
     THEN UNCHANGED <<memo, sleeps>>
     ELSE /\ sleeps' = sleeps + 1
          /\ memo' = [memo EXCEPT !.sleep[batchIndex + 1] = @ + 1]
  /\ attempt' = attempt + 1
  /\ pc' = "wait"
  /\ UNCHANGED <<ledgerVars, batches, run, resumedFrom, inputVars, entryJob, progress, totalImages,
                 cropsMeta, currentBatchSize, cropsChunks, totalBatches, batchIndex,
                 processedItemsCount, processedBatches, artifacts, stepLocal,
                 attemptLog, preprocessRuns, reconciled, profile, crashes, reads, rejectingSteps, faults>>

\* The submit loop ends (lines 1360-1371): the step is set to RESULTS_SAVED.
AllBatchesCompleted ==
  /\ pc = "create"
  /\ batchIndex >= Len(cropsChunks)
  /\ job' = [job EXCEPT !.step = "RESULTS_SAVED"]
  /\ pc' = "save"
  /\ UNCHANGED <<archive, libVars, frames, cropsMetaFile, jsonlFiles, runtimeVars, localVars, historyVars>>

\* ------------------------------------------------------------ reconciler
\* The output file of a completed provider batch: one line per request line
\* that was not dropped, echoing the correlation id.
OutputLines(B) ==
  LET n == Len(B.lines)
      dropped == B.dropPos \in 1..n
  IN [k \in 1..(IF dropped THEN n - 1 ELSE n) |->
        LET p == IF dropped /\ k >= B.dropPos THEN k + 1 ELSE k
        IN [custom_id |-> B.lines[p], error |-> (p = B.errPos)]]

RECURSIVE Flatten(_)
Flatten(ss) == IF ss = <<>> THEN <<>> ELSE Head(ss) \o Flatten(Tail(ss))

\* `(!text || text === "<EMPTY>") ? "" : text`
FinalTextKeepsSentinel(text) == text

FinalText(text) == IF text = "" \/ text = "<EMPTY>" THEN "" ELSE text

\* parseCustomId recovers (filename, index); a main output line becomes a
\* frame, an error line a provisional frame with empty text.
FrameOfLine(line) ==
  [filename |-> line.custom_id.filename,
   index |-> line.custom_id.frame,
   text |-> IF line.error THEN "" ELSE FinalText(ModelText(line.custom_id.filename))]

MainOutputs(pbs) == [i \in 1..Len(pbs) |-> OutputLines(batches[pbs[i].batchId])]

expectedEntries(meta) ==
  [i \in 1..Len(meta) |->
     [customId |-> CustomId((i - 1) \div BATCH_SIZE, i - 1, meta[i]),
      filename |-> meta[i], index |-> i - 1]]

\* First occurrences of a sequence, in order (the seenRetry filter).
Dedupe(seq) ==
  IF Cardinality(Range(seq)) = Len(seq)
  THEN seq
  ELSE LET idx == [i \in 1..Len(seq) |-> [pos |-> i, val |-> seq[i]]]
           firsts == SelectSeq(idx, LAMBDA e : \A j \in 1..(e.pos - 1) : seq[j] # e.val)
       IN [i \in 1..Len(firsts) |-> firsts[i].val]

\* The request lines of the supplementary batch: failed then missing items.
RetryLines(lines, meta) ==
  LET seen == {lines[i].custom_id : i \in 1..Len(lines)}
      failed == SelectSeq(lines, LAMBDA l : l.error)
      failedIds == [i \in 1..Len(failed) |-> failed[i].custom_id]
      expected == expectedEntries(meta)
      missing == SelectSeq(expected, LAMBDA e : e.customId \notin seen)
      missingIds == [i \in 1..Len(missing) |-> missing[i].customId]
      expectedIds == {expected[i].customId : i \in 1..Len(expected)}
      cropUrlMap == Range(meta)
      hasUrl(id) == id.filename \in cropUrlMap \/ id \in expectedIds
  IN SelectSeq(Dedupe(failedIds \o missingIds), hasUrl)

\* Merge of the supplementary output into framesToPersist (lines 669-737):
\* an existing frame with the same index and filename gets the new text,
\* otherwise a frame is added and counted.
MergeRetry(fr, retryOut) ==
  LET ok == SelectSeq(retryOut, LAMBDA l : ~l.error)
      pairOf(id) == <<id.frame, id.filename>>
      okPairs == {pairOf(ok[i].custom_id) : i \in 1..Len(ok)}
      frPairs == {<<fr[k].index, fr[k].filename>> : k \in 1..Len(fr)}
      updated == [k \in 1..Len(fr) |->
                    IF /\ <<fr[k].index, fr[k].filename>> \in okPairs
                       /\ \A j \in 1..(k - 1) :
                            <<fr[j].index, fr[j].filename>> # <<fr[k].index, fr[k].filename>>
                    THEN [fr[k] EXCEPT !.text = FinalText(ModelText(fr[k].filename))]
                    ELSE fr[k]]
      fresh == Dedupe(SelectSeq([i \in 1..Len(ok) |-> pairOf(ok[i].custom_id)],
                                LAMBDA pr : pr \notin frPairs))
      added == [i \in 1..Len(fresh) |->
                  [filename |-> fresh[i][2], index |-> fresh[i][1],
                   text |-> FinalText(ModelText(fresh[i][2]))]]
  IN updated \o added

\* saveBatchResults up to the creation of the supplementary batch
\* (lines 441-641).
SaveResultsToDb ==
  /\ pc = "save"
  /\ ~memo.save
  /\ LET outs == MainOutputs(processedBatches)
         lines == Flatten(outs)
         retry == RetryLines(lines, cropsMeta)
     IN IF \E i \in 1..Len(outs) : Len(outs[i]) = 0
        THEN /\ job' = CatchError(job, "Batch output file is empty")
             /\ EndRun
             /\ UNCHANGED <<batches, jsonlFiles>>
        ELSE /\ stepLocal' = [stepLocal EXCEPT
                                !.framesToPersist = [k \in 1..Len(lines) |-> FrameOfLine(lines[k])],
                                !.totalProcessedLines = Len(lines),
                                !.retryBatch = IF retry = <<>> THEN 0 ELSE Len(batches) + 1]
             /\ batches' = IF retry = <<>> THEN batches
                           ELSE Append(batches,
                                  [batchIndex |-> Len(processedBatches), lines |-> retry,
                                   status |-> "in_progress", outputFileId |-> FALSE,
                                   errPos |-> 0, dropPos |-> 0, retry |-> TRUE])
             /\ jsonlFiles' = IF retry = <<>> THEN jsonlFiles
                              ELSE jsonlFiles \cup {retryJsonlPath(Len(processedBatches))}
             /\ pc' = "saving"
             /\ UNCHANGED <<job, entryJob, progress, totalImages, cropsMeta, currentBatchSize,
                            cropsChunks, totalBatches, batchIndex, processedItemsCount,
                            processedBatches, artifacts, attempt>>
  /\ UNCHANGED <<archive, libVars, frames, cropsMetaFile, memo, run, resumedFrom, inputVars, historyVars>>

\* db.delete(ocrJobFrames) of the job's rows, then db.insert of the new ones.
DeleteFramesSkipped(fr) == fr

DeleteFrames(fr) == <<>>

InsertFrames(fr, rows) == fr \o rows

\* saveBatchResults from waitSimple to the end (lines 643-760): wait for the
\* supplementary batch, merge it, check the count, replace the Frame rows.
SaveResultsFinish ==
  /\ pc = "saving"
  /\ stepLocal.retryBatch # 0 => batches[stepLocal.retryBatch].status # "in_progress"
  /\ IF stepLocal.retryBatch # 0 /\ ~PollEndsLoop(checkBatchStatus(stepLocal.retryBatch))
     THEN /\ job' = CatchError(job, "Retry batch did not complete in time")
          /\ EndRun
          /\ UNCHANGED <<frames, memo, reconciled>>
     ELSE IF stepLocal.retryBatch # 0 /\ batches[stepLocal.retryBatch].status # "completed"
     THEN /\ job' = CatchError(job, "Retry batch failed")
          /\ EndRun
          /\ UNCHANGED <<frames, memo, reconciled>>
     ELSE LET merged == IF stepLocal.retryBatch = 0
                        THEN stepLocal.framesToPersist
                        ELSE MergeRetry(stepLocal.framesToPersist,
                                        OutputLines(batches[stepLocal.retryBatch]))
              total == stepLocal.totalProcessedLines
                         + (Len(merged) - Len(stepLocal.framesToPersist))
          IN IF totalImages > 0 /\ total # totalImages
             THEN /\ job' = CatchError(job, "Batch output mismatch")
                  /\ EndRun
                  /\ UNCHANGED <<frames, memo, reconciled>>
             ELSE IF Len(merged) = 0
             THEN /\ job' = CatchError(job, "No OCR frames were parsed")
                  /\ EndRun
                  /\ UNCHANGED <<frames, memo, reconciled>>
             ELSE /\ frames' = InsertFrames(DeleteFrames(frames), merged)
                  /\ job' = [job EXCEPT !.step = "DOCS_BUILT"]
                  /\ memo' = [memo EXCEPT !.save = TRUE]
                  /\ reconciled' = TRUE
                  /\ stepLocal' = NoStepLocal
                  /\ pc' = "save"
                  /\ UNCHANGED <<entryJob, progress, totalImages, cropsMeta, currentBatchSize,
                                 cropsChunks, totalBatches, batchIndex, processedItemsCount,
                                 processedBatches, artifacts, attempt>>
  /\ UNCHANGED <<archive, libVars, cropsMetaFile, jsonlFiles, batches, run, resumedFrom, inputVars, attemptLog,
                 preprocessRuns, profile, crashes, reads, rejectingSteps, sleeps, faults>>

\* Lines 1385-1388 after the (memoized) save step.
AfterSaveResults ==
  /\ pc = "save"
  /\ memo.save
  /\ progress' = [progress EXCEPT !.batchesCompleted = totalBatches]
  /\ job' = [persistProgress(job, progress') EXCEPT !.step = "RESULTS_SAVED"]
  /\ pc' = "docs"
  /\ UNCHANGED <<archive, libVars, frames, cropsMetaFile, jsonlFiles, runtimeVars, historyVars, entryJob,
                 totalImages, cropsMeta, currentBatchSize, cropsChunks, totalBatches,
                 batchIndex, processedItemsCount, processedBatches, artifacts, attempt,
                 stepLocal>>

\* -------------------------------------------------------------- assembler
\* buildParagraphsFromFrames skips frames whose text is empty; no paragraph
\* is left exactly when every frame is blank.
NoParagraphsCheckSkipped(fr) == FALSE

NoParagraphs(fr) == \A k \in 1..Len(fr) : fr[k].text = ""

\* `numberOfBatches + 10`
BATCH_CLEANUP_MARGIN == 10

\* The manifest paths buildDocuments unlinks: the legacy path and the path of
\* every batch index below Math.ceil(totalImages / BATCH_SIZE) + 10.
UnlinkedJsonlPaths(total) ==
  {getJobBatchJsonlPath(0)}
    \cup {getJobBatchJsonlPath(i) :
            i \in 0..(CeilDiv(total, BATCH_SIZE) + BATCH_CLEANUP_MARGIN - 1)}

\* step.run(BuildDocsAndCleanup): buildDocuments.
BuildDocsAndCleanup ==
  /\ pc = "docs"
  /\ ~memo.docs
  /\ IF NoParagraphs(frames)
     THEN /\ job' = CatchError(job, "Unable to build OCR paragraphs for this job.")
          /\ EndRun
          /\ UNCHANGED <<cropsMetaFile, jsonlFiles, memo>>
     ELSE /\ job' = [job EXCEPT !.status = "DONE", !.txtPath = TRUE, !.docxPath = TRUE]
          /\ cropsMetaFile' = <<>>
          /\ jsonlFiles' = jsonlFiles \ UnlinkedJsonlPaths(totalImages)
          /\ memo' = [memo EXCEPT !.docs = TRUE]
          /\ UNCHANGED <<pc, localVars>>
  /\ UNCHANGED <<archive, libVars, frames, batches, run, resumedFrom, inputVars, historyVars>>

\* Lines 1401-1416 after the (memoized) document step; the function returns.
AfterBuildDocs ==
  /\ pc = "docs"
  /\ memo.docs
  /\ job' = [job EXCEPT !.step = "DOCS_BUILT", !.status = "DONE"]
  /\ EndRun
  /\ UNCHANGED <<archive, libVars, frames, cropsMetaFile, jsonlFiles, runtimeVars, historyVars>>

Next ==
  \/ Invoke
  \/ Replay
  \/ CountImages
  \/ PreprocessImagesAndCrops
  \/ PreprocessFails
  \/ AfterPreprocess
  \/ BeginCreateBatch
  \/ CreateAccepted
  \/ CreateRejected
  \/ AfterCreateBatch
  \/ CreateBatchMemoized
  \/ ProviderFinishesBatch
  \/ WaitBatchCompletion
  \/ SleepBeforeNextCheck
  \/ AllBatchesCompleted
  \/ SaveResultsToDb
  \/ SaveResultsFinish
  \/ AfterSaveResults
  \/ BuildDocsAndCleanup
  \/ AfterBuildDocs

Spec == Init /\ [][Next]_vars

\* ------------------------------------------------------------------ crashes
\* The process may die inside a step callback.  The runtime has no result
\* for that step, so it re-executes the function body from the top with the
\* results recorded so far and runs the callback again.
CrashSizes == {0, SmallArchive}

CrashInit ==
  /\ archive \in CrashSizes
  /\ PipelineIdle
  /\ entries = <<>> /\ filtered = NoFiltered
  /\ frameRows = <<>> /\ paragraphs = <<>>
  /\ libPc = "off"
  /\ idRequest = NoIdRequest

\* createBatchArtifacts returned from batches.create (line 359): the provider
\* holds the batch.  The process dies before step.run records the result.
CrashAfterBatchAccepted ==
  /\ pc = "creating"
  /\ crashes < MaxCrashes
  /\ crashes' = crashes + 1
  /\ batches' = Append(batches,
                  [batchIndex |-> batchIndex,
                   lines |-> BatchLines(batchIndex, stepLocal.localChunk, processedItemsCount),
                   status |-> "in_progress", outputFileId |-> FALSE,
                   errPos |-> 0, dropPos |-> 0, retry |-> FALSE])
  /\ attemptLog' = LogAttempt(TRUE)
  /\ jsonlFiles' = jsonlFiles \cup {getJobBatchJsonlPath(batchIndex)}
  /\ EnterFunction(event, apiKey)
  /\ UNCHANGED <<archive, libVars, frames, cropsMetaFile, memo, run, resumedFrom, inputVars,
                 preprocessRuns, reconciled, profile, reads, rejectingSteps, sleeps, faults>>

\* saveBatchResults reaches the delete of line 752: the supplementary batch,
\* if any, completed and the merged count matches.
ReconciledFrames ==
  IF stepLocal.retryBatch = 0
  THEN stepLocal.framesToPersist
  ELSE MergeRetry(stepLocal.framesToPersist, OutputLines(batches[stepLocal.retryBatch]))

ReachesFrameReplacement ==
  /\ stepLocal.retryBatch # 0 =>
        /\ PollEndsLoop(checkBatchStatus(stepLocal.retryBatch))
        /\ batches[stepLocal.retryBatch].status = "completed"
  /\ LET total == stepLocal.totalProcessedLines
                    + (Len(ReconciledFrames) - Len(stepLocal.framesToPersist))
     IN ~(totalImages > 0 /\ total # totalImages)
  /\ Len(ReconciledFrames) # 0

\* The delete of line 752 is committed; the process dies before the insert
\* of line 753.  The two statements are not in one transaction.
CrashBetweenDeleteAndInsert ==
  /\ pc = "saving"
  /\ crashes < MaxCrashes
  /\ ReachesFrameReplacement
  /\ crashes' = crashes + 1
  /\ frames' = DeleteFrames(frames)
  /\ EnterFunction(event, apiKey)
  /\ UNCHANGED <<archive, libVars, cropsMetaFile, jsonlFiles, runtimeVars, attemptLog, preprocessRuns,
                 reconciled, profile, reads, rejectingSteps, sleeps, faults>>

CrashNext ==
  \/ Next
  \/ CrashAfterBatchAccepted
  \/ CrashBetweenDeleteAndInsert

CrashSpec == CrashInit /\ [][CrashNext]_vars

\* ------------------------------------------------- accepting provider, fair
\* The upload event names the owner and the archive, the owner's key is
\* active, and the provider accepts every submission ("reliable"), is slow
\* ("slow") or rejects submissions for capacity ("capacity").
AcceptingProfiles == {"reliable", "slow", "capacity"}

LiveSizes == {SmallArchive, MidArchive}

LiveInit ==
  /\ archive \in LiveSizes
  /\ PipelineIdle
  /\ entries = <<>> /\ filtered = NoFiltered
  /\ frameRows = <<>> /\ paragraphs = <<>>
  /\ libPc = "off"
  /\ idRequest = NoIdRequest

InvokeUpload == InvokeWith(AcceptingProfiles, {UploadEvent}, {TRUE})

\* The steps of the function and of the provider.
LiveSteps ==
  \/ InvokeUpload /\ run = 0
  \/ CountImages
  \/ PreprocessImagesAndCrops
  \/ AfterPreprocess
  \/ BeginCreateBatch
  \/ CreateAccepted
  \/ CreateRejected
  \/ AfterCreateBatch
  \/ CreateBatchMemoized
  \/ ProviderFinishesBatch
  \/ WaitBatchCompletion
  \/ SleepBeforeNextCheck
  \/ AllBatchesCompleted
  \/ SaveResultsToDb
  \/ SaveResultsFinish
  \/ AfterSaveResults
  \/ BuildDocsAndCleanup
  \/ AfterBuildDocs

LiveNext ==
  \/ LiveSteps
  \/ InvokeUpload
  \/ Replay

\* The runtime re-executes the function body once per recorded step, hence
\* finitely often; an enabled step of the function or of the provider is
\* eventually taken.
LiveSpec ==
  /\ LiveInit
  /\ [][LiveNext]_vars
  /\ WF_vars(LiveSteps)
  /\ <>[][~Replay]_vars


\* ================================================================ library
\* File names are sequences of one-character strings; recognized text is a
\* sequence of words; a base key is the digit run it was parsed from.
MaxEntries == 2
MaxRows == 3
MaxSorted == 4

Digits == {"0", "1", "2", "3", "4", "5", "6", "7", "8", "9"}

DigitValue(c) ==
  CASE c = "0" -> 0 [] c = "1" -> 1 [] c = "2" -> 2 [] c = "3" -> 3 [] c = "4" -> 4
    [] c = "5" -> 5 [] c = "6" -> 6 [] c = "7" -> 7 [] c = "8" -> 8 [] c = "9" -> 9

\* Number.parseInt(digits, 10) on a run of digits.
RECURSIVE parseInt(_)
parseInt(ds) ==
  IF ds = <<>> THEN 0
  ELSE 10 * parseInt(SubSeq(ds, 1, Len(ds) - 1)) + DigitValue(ds[Len(ds)])

\* Position of the last occurrence of character c in s, 0 when absent.
LastIndexOf(s, c) ==
  IF \E i \in 1..Len(s) : s[i] = c
  THEN CHOOSE i \in 1..Len(s) : s[i] = c /\ \A j \in (i + 1)..Len(s) : s[j] # c
  ELSE 0

StartsWith(s, prefix) ==
  Len(s) >= Len(prefix) /\ SubSeq(s, 1, Len(prefix)) = prefix

\* path.basename(p)
basename(p) == SubSeq(p, LastIndexOf(p, "/") + 1, Len(p))

\* path.extname(base): from the last dot, empty when the dot leads the name.
extname(base) ==
  LET i == LastIndexOf(base, ".")
  IN IF i <= 1 THEN <<>> ELSE SubSeq(base, i, Len(base))

ToLower(c) ==
  CASE c = "P" -> "p" [] c = "N" -> "n" [] c = "G" -> "g" [] c = "J" -> "j"
    [] c = "E" -> "e" [] c = "A" -> "a" [] c = "B" -> "b" [] OTHER -> c

\* /\.(png|jpe?g)$/i
IsImageExt(ext) ==
  [i \in 1..Len(ext) |-> ToLower(ext[i])]
    \in {<<".", "p", "n", "g">>, <<".", "j", "p", "g">>, <<".", "j", "p", "e", "g">>}

\* /^(\d+)/: the leading run of digits.
LeadingDigits(name) ==
  LET n == IF \E i \in 1..Len(name) : name[i] \notin Digits
           THEN (CHOOSE i \in 1..Len(name) :
                   name[i] \notin Digits /\ \A j \in 1..(i - 1) : name[j] \in Digits) - 1
           ELSE Len(name)
  IN SubSeq(name, 1, n)

NotProcessable == [processable |-> FALSE]

validateProcessableImageEntry(entryName) ==
  IF StartsWith(entryName, <<"_", "_", "M", "A", "C", "O", "S", "X", "/">>)
  THEN NotProcessable
  ELSE LET base == basename(entryName)
           ext == extname(base)
           nameWithoutExt == SubSeq(base, 1, Len(base) - Len(ext))
           match == LeadingDigits(nameWithoutExt)
       IN IF StartsWith(base, <<".", "_">>) THEN NotProcessable
          ELSE IF ~IsImageExt(ext) THEN NotProcessable
          ELSE IF match = <<>> THEN NotProcessable
          ELSE [processable |-> TRUE,
                baseName |-> parseInt(match),
                originalName |-> base,
                shouldIncludeInZip |-> (match = nameWithoutExt)]

\* String.prototype.toLowerCase
toLowerCase(str) == [i \in 1..Len(str) |-> ToLower(str[i])]

\* The characters of the file names in collation order (punctuation, digits,
\* letters); upper and lower case share a place.
CollationOrder ==
  <<"_", "-", ".", "/", "0", "1", "2", "3", "4", "5", "6", "7", "8", "9",
    "a", "b", "d", "e", "f", "g", "i", "j", "n", "p">>

CollationRank(c) == CHOOSE i \in 1..Len(CollationOrder) : CollationOrder[i] = ToLower(c)

\* String.prototype.localeCompare: by letters first, then lower case before
\* upper case at the first place where only the case differs.
localeCompare(a, b) ==
  LET common == 1..Min(Len(a), Len(b))
      primary == {i \in common : CollationRank(a[i]) # CollationRank(b[i])}
      cased == {i \in common : a[i] # b[i]}
      first(S) == CHOOSE i \in S : \A j \in S : i <= j
  IN IF primary # {}
     THEN (IF CollationRank(a[first(primary)]) < CollationRank(b[first(primary)]) THEN -1 ELSE 1)
     ELSE IF Len(a) # Len(b) THEN (IF Len(a) < Len(b) THEN -1 ELSE 1)
     ELSE IF cased # {} THEN (IF a[first(cased)] = ToLower(a[first(cased)]) THEN -1 ELSE 1)
     ELSE 0

\* /^([^\d]+)/: the leading run of characters that are not digits.
LeadingNonDigits(name) ==
  LET n == IF \E i \in 1..Len(name) : name[i] \in Digits
           THEN (CHOOSE i \in 1..Len(name) :
                   name[i] \in Digits /\ \A j \in 1..(i - 1) : name[j] \notin Digits) - 1
           ELSE Len(name)
  IN SubSeq(name, 1, n)

\* name.match(/\d+|[^\d]+/g)
RECURSIVE rawTokens(_)
rawTokens(name) ==
  IF name = <<>> THEN <<>>
  ELSE LET token == IF name[1] \in Digits THEN LeadingDigits(name) ELSE LeadingNonDigits(name)
       IN <<token>> \o rawTokens(SubSeq(name, Len(token) + 1, Len(name)))

\* A FilenameToken: a number or a string.
NumberToken(n) == [isNumber |-> TRUE, number |-> n, string |-> <<>>]

StringToken(str) == [isNumber |-> FALSE, number |-> 0, string |-> str]

tokenizeFilename(input) ==
  LET withoutExt(lower, dot) ==
        IF dot = 0 \/ dot = Len(lower) THEN lower ELSE SubSeq(lower, 1, dot - 1)
      stripped(lower) == withoutExt(lower, LastIndexOf(lower, "."))
      typed(name, tokens) ==
        IF tokens = <<>> THEN <<StringToken(name)>>
        ELSE [i \in 1..Len(tokens) |->
                IF tokens[i][1] \in Digits THEN NumberToken(parseInt(tokens[i]))
                ELSE StringToken(tokens[i])]
      tokenized(name) == typed(name, rawTokens(name))
  IN tokenized(stripped(toLowerCase(input)))

compareImageFilenames(a, b) ==
  LET compared(tokensA, tokensB) ==
        LET maxLength == IF Len(tokensA) > Len(tokensB) THEN Len(tokensA) ELSE Len(tokensB)
            at(index) ==
              IF index > Len(tokensA) THEN -1
              ELSE IF index > Len(tokensB) THEN 1
              ELSE LET tokenA == tokensA[index]
                       tokenB == tokensB[index]
                   IN IF tokenA.isNumber /\ tokenB.isNumber THEN tokenA.number - tokenB.number
                      ELSE IF tokenA.isNumber THEN -1
                      ELSE IF tokenB.isNumber THEN 1
                      ELSE localeCompare(tokenA.string, tokenB.string)
            results == [index \in 1..maxLength |-> at(index)]
            decided == {index \in 1..maxLength : results[index] # 0}
        IN IF decided = {} THEN 0
           ELSE results[CHOOSE index \in decided : \A j \in decided : index <= j]
  IN compared(tokenizeFilename(a), tokenizeFilename(b))

\* The comparator of the sortedCrops sort.
compareCrops(a, b) ==
  LET orByName(comparison) == IF comparison # 0 THEN comparison ELSE localeCompare(a, b)
  IN orByName(compareImageFilenames(a, b))

\* Array.prototype.sort (stable) with compareCrops: x is placed after the
\* sorted elements that do not come after it.
InsertCrop(done, x) ==
  LET p == Cardinality({i \in 1..Len(done) : compareCrops(done[i], x) <= 0})
  IN SubSeq(done, 1, p) \o <<x>> \o SubSeq(done, p + 1, Len(done))

RECURSIVE SortCrops(_)
SortCrops(crops) ==
  IF crops = <<>> THEN <<>>
  ELSE InsertCrop(SortCrops(SubSeq(crops, 1, Len(crops) - 1)), crops[Len(crops)])

\* sortedCrops: the manifest written to cropsMeta.json.
sortedCropsAsPushed(crops) == crops

sortedCrops(crops) == SortCrops(crops)

\* The crop file name of a processed entry: its name with extension ".png".
cropFilename(originalName) ==
  SubSeq(originalName, 1, Len(originalName) - Len(extname(originalName))) \o <<".", "p", "n", "g">>

\* getJobCropKey(jobId, filename): `${getJobRootKey(jobId)}/crops/${filename}`.
getJobCropKey(filename) == <<"j", "o", "b", "/", "c", "r", "o", "p", "s", "/">> \o filename

\* streamAndProcessZip: the files appended to the filtered archive, the sorted
\* manifest of the crops and the processed count.
streamAndProcessZip(es) ==
  LET appended(included) ==
        [i \in 1..Len(included) |->
           [baseName |-> included[i].baseName,
            originalExt |-> extname(included[i].originalName)]]
      outcome(processable) ==
        [archive |-> appended(SelectSeq(processable, LAMBDA r : r.shouldIncludeInZip)),
         cropsMeta |-> sortedCrops([i \in 1..Len(processable) |->
                                      cropFilename(processable[i].originalName)]),
         totalImages |-> Len(processable)]
      results == [i \in 1..Len(es) |-> validateProcessableImageEntry(es[i])]
  IN outcome(SelectSeq(results, LAMBDA r : r.processable))

\* sortKeys on numeric base keys.
sortKeys(a, b) == parseInt(a) - parseInt(b)

\* Array.prototype.sort (stable) of the group keys with sortKeys.
RECURSIVE SortedKeys(_)
SortedKeys(keys) ==
  IF keys = <<>> THEN <<>>
  ELSE LET done == SortedKeys(SubSeq(keys, 1, Len(keys) - 1))
           x == keys[Len(keys)]
           p == Cardinality({i \in 1..Len(done) : sortKeys(done[i], x) <= 0})
       IN SubSeq(done, 1, p) \o <<x>> \o SubSeq(done, p + 1, Len(done))

\* bucket.sort((a, b) => a.index - b.index), stable.
RECURSIVE SortedByIndex(_)
SortedByIndex(bucket) ==
  IF bucket = <<>> THEN <<>>
  ELSE LET done == SortedByIndex(SubSeq(bucket, 1, Len(bucket) - 1))
           x == bucket[Len(bucket)]
           p == Cardinality({i \in 1..Len(done) : done[i].index - x.index <= 0})
       IN SubSeq(done, 1, p) \o <<x>> \o SubSeq(done, p + 1, Len(done))

\* texts.join(" "): the words of the texts in order.
JoinWithSpace(texts) == Flatten(texts)

buildParagraphsFromFrames(fr) ==
  LET kept == SelectSeq(fr, LAMBDA f : f.text # <<>>)
      grouped == Dedupe([i \in 1..Len(kept) |-> kept[i].baseKey])
      keys == SortedKeys(grouped)
  IN [k \in 1..Len(keys) |->
        LET bucket == SortedByIndex(SelectSeq(kept, LAMBDA f : f.baseKey = keys[k]))
        IN JoinWithSpace([i \in 1..Len(bucket) |-> bucket[i].text])]

\* paragraphsWithBlankLine: the lines of the plain-text document.
paragraphsWithBlankLine(ps) ==
  [l \in 1..(IF ps = <<>> THEN 0 ELSE 2 * Len(ps) - 1) |->
     IF l % 2 = 1 THEN ps[(l + 1) \div 2] ELSE <<>>]

\* ------------------------------------------------------------ library inputs
EntryNames ==
  {<<"3", ".", "p", "n", "g">>,
   <<"0", "3", ".", "j", "p", "g">>,
   <<"3", "-", "1", ".", "p", "n", "g">>,
   <<"1", "0", ".", "p", "n", "g">>,
   <<"3", ".", "P", "N", "G">>,
   <<"a", ".", "p", "n", "g">>,
   <<"3", ".", "g", "i", "f">>,
   <<"3">>,
   <<".", "_", "3", ".", "p", "n", "g">>,
   <<"d", "/", "3", ".", "j", "p", "e", "g">>,
   <<"_", "_", "M", "A", "C", "O", "S", "X", "/", "3", ".", "p", "n", "g">>,
   <<"d", "/", "_", "_", "M", "A", "C", "O", "S", "X", "/", "3", ".", "p", "n", "g">>}

\* The entries of an archive, in archive order; paths are pairwise different.
EntryLists ==
  UNION {{es \in [1..n -> EntryNames] : \A i, j \in 1..n : i # j => es[i] # es[j]} :
           n \in 0..MaxEntries}

\* Image names whose order the manifest sort decides.
SortNames ==
  {<<"1", "0", ".", "p", "n", "g">>,
   <<"2", ".", "p", "n", "g">>,
   <<"1", "-", "1", ".", "p", "n", "g">>,
   <<"1", ".", "p", "n", "g">>,
   <<"0", "1", ".", "p", "n", "g">>,
   <<"1", "a", ".", "p", "n", "g">>,
   <<"1", "B", ".", "j", "p", "g">>}

\* Archives of images only, in every entry order.
SortLists ==
  UNION {{es \in [1..n -> SortNames] : \A i, j \in 1..n : i # j => es[i] # es[j]} :
           n \in 0..MaxSorted}

BaseKeys == {<<"2">>, <<"1", "0">>}

Texts == {<<>>, <<"a">>, <<"b">>}

\* Frame rows in any read-back order.  Two rows may carry the same global
\* index: after a batch-size reduction the rows written by the Reconciler can
\* hold two items under one frame number.
RowLists ==
  UNION {[1..n -> [baseKey : BaseKeys, index : 0..(MaxRows - 1), text : Texts]] : n \in 0..MaxRows}

LibInit ==
  /\ archive = 0
  /\ PipelineIdle
  /\ libPc = "input"
  /\ idRequest = NoIdRequest
  /\ filtered = NoFiltered
  /\ paragraphs = <<>>
  /\ \/ entries \in EntryLists \cup SortLists /\ frameRows = <<>>
     \/ entries = <<>> /\ frameRows \in RowLists

pipelineVars == <<archive, job, frames, cropsMetaFile, jsonlFiles, runtimeVars, localVars, historyVars, pc>>

\* streamAndProcessZip runs over the entries of the archive.
StreamAndProcessZip ==
  /\ libPc = "input"
  /\ frameRows = <<>>
  /\ filtered' = streamAndProcessZip(entries)
  /\ libPc' = "done"
  /\ UNCHANGED <<pipelineVars, tableVars, idVars, entries, frameRows, paragraphs>>

\* buildDocuments reads the rows and builds the paragraphs.
BuildParagraphs ==
  /\ libPc = "input"
  /\ entries = <<>>
  /\ paragraphs' = buildParagraphsFromFrames(frameRows)
  /\ libPc' = "done"
  /\ UNCHANGED <<pipelineVars, tableVars, idVars, entries, frameRows, filtered>>

LibNext == StreamAndProcessZip \/ BuildParagraphs

LibSpec == LibInit /\ [][LibNext]_vars

\* ------------------------------------------------------- correlation ids
MaxBatchOrdinal == 1
MaxGlobalIndex == 11

DigitChar(d) == CHOOSE c \in Digits : DigitValue(c) = d

\* String(n) of a non-negative integer inside a template literal.
RECURSIVE DecimalDigits(_)
DecimalDigits(n) ==
  IF n < 10 THEN <<DigitChar(n)>>
  ELSE DecimalDigits(n \div 10) \o <<DigitChar(n % 10)>>

JobLiteral == <<"j", "o", "b", "-">>
BatchLiteral == <<"-", "b", "a", "t", "c", "h", "-">>
FrameLiteral == <<"-", "f", "r", "a", "m", "e", "-">>

\* `job-${jobId}-batch-${batchIndex}-frame-${globalIndex}-${filename}` as text.
customIdText(jobId, batchIdx, globalIndex, filename) ==
  JobLiteral \o jobId \o BatchLiteral \o DecimalDigits(batchIdx)
    \o FrameLiteral \o DecimalDigits(globalIndex) \o <<"-">> \o filename

\* parseCustomId: customId.match(/^job-(.+)-batch-(\d+)-frame-(\d+)-(.+)$/).
\* The first group is greedy: of the ways to split the text, the match is the
\* one whose first group is longest.  A digit group spans its whole digit run,
\* since the literal after it starts with "-".
parseCustomId(customId) ==
  LET n == Len(customId)
      At(lit, p) == p + Len(lit) - 1 <= n /\ SubSeq(customId, p, p + Len(lit) - 1) = lit
      DigitsFrom(p) == Cardinality({k \in p..n : \A q \in p..k : customId[q] \in Digits})
      FrameAt(a) == a + 8 + DigitsFrom(a + 8)
      DashAt(a) == FrameAt(a) + 7 + DigitsFrom(FrameAt(a) + 7)
      Splits(a) ==
        /\ At(BatchLiteral, a + 1)
        /\ DigitsFrom(a + 8) > 0
        /\ At(FrameLiteral, FrameAt(a))
        /\ DigitsFrom(FrameAt(a) + 7) > 0
        /\ At(<<"-">>, DashAt(a))
        /\ DashAt(a) < n
      ends == IF At(JobLiteral, 1) THEN {a \in 5..n : Splits(a)} ELSE {}
  IN IF ends = {} THEN [NoIdParse EXCEPT !.customId = customId]
     ELSE LET a == CHOOSE x \in ends : \A y \in ends : y <= x
          IN [customId |-> customId,
              matched |-> TRUE,
              index |-> parseInt(SubSeq(customId, FrameAt(a) + 7, DashAt(a) - 1)),
              filename |-> SubSeq(customId, DashAt(a) + 1, n)]

IdJobIds == {<<"j", "1">>, <<"a", "-", "b">>}

\* Archive entries whose crops get a request line.
IdEntryNames ==
  {<<"3", ".", "p", "n", "g">>,
   <<"d", "/", "3", "-", "1", ".", "j", "p", "g">>,
   <<"1", "0", ".", "P", "N", "G">>,
   <<"3", "-", "b", "a", "t", "c", "h", "-", "0", "-", "f", "r", "a", "m", "e", "-", "7", "-", "x", ".", "p", "n", "g">>,
   <<"a", ".", "p", "n", "g">>}

\* cropsMeta[i].filename of the processable entries.
IdFilenames ==
  {cropFilename(validateProcessableImageEntry(e).originalName) :
     e \in {x \in IdEntryNames : validateProcessableImageEntry(x).processable}}

IdRequests ==
  [jobId : IdJobIds, batchIndex : 0..MaxBatchOrdinal, globalIndex : 0..MaxGlobalIndex,
   filename : IdFilenames]

IdInit ==
  /\ archive = 0
  /\ PipelineIdle
  /\ entries = <<>> /\ filtered = NoFiltered
  /\ frameRows = <<>> /\ paragraphs = <<>>
  /\ libPc = "input"
  /\ idRequest \in IdRequests

\* The Submitter writes the custom_id of one request line and the Reconciler
\* parses the custom_id of the output line that answers it.
WriteAndParseCustomId ==
  /\ libPc = "input"
  /\ idRequest # NoIdRequest
  /\ idParse' = parseCustomId(customIdText(idRequest.jobId, idRequest.batchIndex,
                                           idRequest.globalIndex, idRequest.filename))
  /\ libPc' = "done"
  /\ UNCHANGED <<pipelineVars, tableVars, idRequest, entries, frameRows, filtered, paragraphs>>

IdNext == WriteAndParseCustomId

IdSpec == IdInit /\ [][IdNext]_vars

\* ------------------------------------------------------------ shared tables
\* Two jobs live in the same ocr_jobs and ocr_job_frames tables.  Every
\* action below is one database-writing step of an invocation that runs for
\* job `j`; invocations of different jobs interleave freely.
MaxJobImages == 2

LedgerInit ==
  /\ archive = 0
  /\ PipelineIdle
  /\ entries = <<>> /\ filtered = NoFiltered
  /\ frameRows = <<>> /\ paragraphs = <<>>
  /\ libPc = "off"
  /\ idRequest = NoIdRequest

libraryVars == <<entries, filtered, frameRows, paragraphs, libPc, idVars>>

\* Rows of ocr_job_frames that belong to job k.
FramesOfJob(table, k) == {r \in table : r.jobId = k}

\* persistProgress(jobId, progress): update ... where jobId.
PersistProgress(j) ==
  /\ \E t \in 0..MaxJobImages, p \in 0..MaxJobImages :
       /\ p <= t
       /\ ocrJobs' = [ocrJobs EXCEPT ![j] = persistProgress(@, buildProgress(t, p))]
  /\ writer' = j
  /\ UNCHANGED <<pipelineVars, libraryVars, ocrJobFrames>>

\* The update before the SaveResultsToDb step: step RESULTS_SAVED where jobId.
MarkResultsSaved(j) ==
  /\ ocrJobs' = [ocrJobs EXCEPT ![j].step = "RESULTS_SAVED"]
  /\ writer' = j
  /\ UNCHANGED <<pipelineVars, libraryVars, ocrJobFrames>>

\* The end of saveBatchResults: delete the Frame rows where jobId, insert the
\* new rows (each carries jobId), update step DOCS_BUILT where jobId.
ReplaceFrames(j) ==
  /\ \E n \in 1..MaxJobImages :
       ocrJobFrames' = (ocrJobFrames \ FramesOfJob(ocrJobFrames, j))
                         \cup {[jobId |-> j, index |-> i] : i \in 0..(n - 1)}
  /\ ocrJobs' = [ocrJobs EXCEPT ![j].step = "DOCS_BUILT"]
  /\ writer' = j
  /\ UNCHANGED <<pipelineVars, libraryVars>>

\* The catch handler of processOcrJob: status ERROR and the message where jobId.
RecordError(j) ==
  /\ ocrJobs' = [ocrJobs EXCEPT ![j] = CatchError(@, "Unknown error")]
  /\ writer' = j
  /\ UNCHANGED <<pipelineVars, libraryVars, ocrJobFrames>>

\* preprocessZip, step "update-job-preprocessing": db.update(ocrJobs).set(...)
\* without a where clause, so the values are written to every row.
UpdateJobPreprocessing(j) ==
  /\ \E n \in 0..MaxJobImages :
       ocrJobs' = [k \in JobIds |->
                    [ocrJobs[k] EXCEPT !.step = "BATCH_SUBMITTED",
                                       !.totalImages = n,
                                       !.processedImages = n,
                                       !.status = "PROCESSING"]]
  /\ writer' = j
  /\ UNCHANGED <<pipelineVars, libraryVars, ocrJobFrames>>

LedgerNext ==
  \E j \in JobIds :
    \/ PersistProgress(j)
    \/ MarkResultsSaved(j)
    \/ ReplaceFrames(j)
    \/ RecordError(j)
    \/ UpdateJobPreprocessing(j)

LedgerSpec == LedgerInit /\ [][LedgerNext]_vars

\* ================================================================ properties
\* The provider batches of the main submit loop, in creation order.
MainBatches == SelectSeq(batches, LAMBDA B : ~B.retry)

\* The filenames of the request lines of a batch.
ItemsOf(B) == [l \in 1..Len(B.lines) |-> B.lines[l].filename]

SubmittedItems == Flatten([i \in 1..Len(MainBatches) |-> ItemsOf(MainBatches[i])])

\* The submit loop of the running execution has ended.
LoopEnded == pc = "save" /\ ~memo.save

\* C1: when the Submitter's loop ends, every work item is in exactly one
\* accepted batch: none is skipped and none is in two batches.
C1_EveryItemInExactlyOneBatch ==
  LoopEnded =>
    /\ Len(SubmittedItems) = Len(cropsMeta)
    /\ Range(SubmittedItems) = Range(cropsMeta)

\* C3: the persisted step never moves backward in the order
\* PREPROCESSING < BATCH_SUBMITTED < RESULTS_SAVED < DOCS_BUILT.
C3_StepNeverMovesBackward ==
  [][StepRank(job'.step) >= StepRank(job.step)]_vars

\* C7: the batch size of a submission attempt is at most the size of every
\* earlier attempt of the same job.
C7_BatchSizeIsRatchet ==
  \A i \in 1..Len(attemptLog) : \A j \in 1..(i - 1) :
    attemptLog[i].size <= attemptLog[j].size

MainBatchCount(bs, b) ==
  Cardinality({id \in 1..Len(bs) : ~bs[id].retry /\ bs[id].batchIndex = b})

C4_ErrorKeepsLastCompletedStep ==
  (pc = "idle" /\ job.status = "ERROR") =>
    /\ job.error # ""
    /\ job.step = "BATCH_SUBMITTED" =>
         (cropsMetaFile # <<>> /\ Len(cropsMetaFile[1]) > 0)
    /\ job.step = "RESULTS_SAVED" => frames # <<>>
    /\ job.step = "DOCS_BUILT" => (job.txtPath /\ job.docxPath)

\* C5: an invocation that starts on a job in ERROR whose step is
\* BATCH_SUBMITTED or later does not preprocess again, and from RESULTS_SAVED
\* on does not create main batches again.
C5_RetryResumesAtPersistedStep ==
  [][(/\ run' = run
      /\ pc # "idle"
      /\ resumedFrom.status = "ERROR"
      /\ StepRank(resumedFrom.step) >= 1) =>
       /\ preprocessRuns' = preprocessRuns
       /\ StepRank(resumedFrom.step) >= 2 => Len(MainBatches') = Len(MainBatches)]_vars

\* The chunks of the attempts accepted after position i of the log.
AcceptedAfter(i) ==
  LET later == SelectSeq(SubSeq(attemptLog, i + 1, Len(attemptLog)), LAMBDA a : a.accepted)
  IN [k \in 1..Len(later) |-> later[k].chunk]

AcceptedUpTo(i) ==
  LET earlier == SelectSeq(SubSeq(attemptLog, 1, i), LAMBDA a : a.accepted)
  IN UNION {Range(earlier[k].chunk) : k \in 1..Len(earlier)}

\* C6: after a capacity rejection at size s the next attempt submits the first
\* s' items of the chunk (s' the next ladder size), and once it is accepted
\* all remaining items are submitted in consecutive batches of s' items.
C6_ReductionRepartitionsTheRest ==
  /\ \A i \in 1..(Len(attemptLog) - 1) :
       (~attemptLog[i].accepted /\ attemptLog[i + 1].batchIndex = attemptLog[i].batchIndex) =>
         /\ attemptLog[i + 1].size = NextBatchSize(attemptLog[i].size)
         /\ attemptLog[i + 1].chunk = Slice(attemptLog[i].chunk, 0, attemptLog[i + 1].size)
  /\ LoopEnded =>
       \A i \in 2..Len(attemptLog) :
         (/\ attemptLog[i].accepted
          /\ ~attemptLog[i - 1].accepted
          /\ \A j \in (i + 1)..Len(attemptLog) : attemptLog[j].accepted) =>
           LET done == AcceptedUpTo(i)
               rest == SelectSeq(cropsMeta, LAMBDA item : item \notin done)
           IN AcceptedAfter(i) = chunkArray(rest, attemptLog[i].size)

LastLadderSize == BATCH_SIZE_REDUCTION_STEPS[Len(BATCH_SIZE_REDUCTION_STEPS)]

C9_FramesAreExactlyTheManifest ==
  reconciled =>
    /\ Len(frames) = archive
    /\ {<<frames[k].filename, frames[k].index>> : k \in 1..Len(frames)}
         = {<<SortedCrops(archive)[i], i - 1>> : i \in 1..archive}

\* C10: the Reconciler submits one supplementary batch holding each failed or
\* missing item exactly once and nothing else, and none when there is no
\* failed or missing item.
C10_OneRetryBatchOfFailedAndMissing ==
  pc = "saving" =>
    LET lines == Flatten(MainOutputs(processedBatches))
        seen == {lines[i].custom_id : i \in 1..Len(lines)}
        failedItems == {lines[i].custom_id.filename : i \in {k \in 1..Len(lines) : lines[k].error}}
        expected == expectedEntries(cropsMeta)
        missingItems == {expected[i].filename : i \in {k \in 1..Len(expected) : expected[k].customId \notin seen}}
        retryIds == {id \in 1..Len(batches) : batches[id].retry}
    IN IF failedItems \cup missingItems = {}
       THEN retryIds = {}
       ELSE /\ retryIds = {stepLocal.retryBatch}
            /\ Range(ItemsOf(batches[stepLocal.retryBatch])) = failedItems \cup missingItems
            /\ Len(batches[stepLocal.retryBatch].lines) = Cardinality(failedItems \cup missingItems)

\* Correlation ids seen in the main batch outputs read by the Reconciler.
SeenInMain ==
  LET lines == Flatten(MainOutputs(processedBatches))
  IN {lines[i].custom_id : i \in 1..Len(lines)}

\* Correlation ids the supplementary batch returned a result for.
ResolvedByRetry ==
  IF stepLocal.retryBatch # 0 /\ batches[stepLocal.retryBatch].status = "completed"
       /\ batches[stepLocal.retryBatch].outputFileId
  THEN LET out == OutputLines(batches[stepLocal.retryBatch])
       IN {out[i].custom_id : i \in {k \in 1..Len(out) : ~out[k].error}}
  ELSE {}

ExpectedIds ==
  LET expected == expectedEntries(cropsMeta)
  IN {expected[i].customId : i \in 1..Len(expected)}

\* The Reconciler leaves saveBatchResults (returns or throws).
ReconcilerEnds == pc = "saving" /\ pc' # "saving"

\* C11: when an expected correlation id is absent from every main batch output
\* and from the results of the supplementary batch, the Reconciler fails
\* before it changes any Frame row and the job is left in ERROR.
C11_StillMissingIsMismatch ==
  [][(ReconcilerEnds /\ ExpectedIds \ (SeenInMain \cup ResolvedByRetry) # {}) =>
       /\ frames' = frames
       /\ ~reconciled'
       /\ job'.status = "ERROR"]_vars

\* Correlation ids whose main output line is a per-item error.
FailedInMain ==
  LET lines == Flatten(MainOutputs(processedBatches))
  IN {lines[i].custom_id : i \in {k \in 1..Len(lines) : lines[k].error}}

\* C12: a per-item error of a main batch output that the supplementary batch
\* did not resolve (its line is an error again, or absent) makes the
\* Reconciler fail: no Frame row changes and the job is left in ERROR.
C12_UnresolvedItemErrorIsFatal ==
  [][(ReconcilerEnds /\ FailedInMain \ ResolvedByRetry # {}) =>
       /\ frames' = frames
       /\ ~reconciled'
       /\ job'.status = "ERROR"]_vars

\* The main batch outputs hold a result for every expected correlation id and
\* no per-item error.
CompleteErrorFree == ExpectedIds \subseteq SeenInMain /\ FailedInMain = {}

\* The Frame rows parsed from the main batch outputs.
ParsedRows ==
  LET lines == Flatten(MainOutputs(processedBatches))
  IN [k \in 1..Len(lines) |-> FrameOfLine(lines[k])]

\* C13: on complete, error-free batch outputs the Reconciler replaces whatever
\* rows the job had by the rows parsed from the outputs, their number is the
\* job's recorded total image count, and running it again on the same outputs
\* leaves the same rows.
C13_ReconcilerIsIdempotent ==
  [][(ReconcilerEnds /\ CompleteErrorFree) =>
       /\ reconciled'
       /\ frames' = ParsedRows
       /\ Len(frames') = job.totalImages
       /\ InsertFrames(DeleteFrames(frames'), ParsedRows) = frames']_vars

\* The Reconciler completed in a second run, on error-free outputs, for a job
\* whose first run had saved rows and then failed to build paragraphs.
C13_Witness ==
  /\ reconciled
  /\ run = 2
  /\ job.error = "Unable to build OCR paragraphs for this job."
  /\ Len(frames) = archive
  /\ \E k \in 1..Len(frames) : frames[k].text # ""

\* Polls recorded by the current run: <<ordinal + 1, attempt + 1>> positions
\* at which the provider reported failed or cancelled.
FatalPolls ==
  {bk \in {<<b, k>> : b \in 1..Len(memo.wait), k \in 1..MaxSleeps + 2} :
     /\ bk[2] <= Len(memo.wait[bk[1]])
     /\ memo.wait[bk[1]][bk[2]].status \in {"failed", "cancelled"}}

\* C14: once a poll of batch N returned failed or cancelled, that poll is the
\* last one of the batch, no batch with a greater ordinal exists, the
\* Reconciler has not run and the job is in ERROR with no function running.
C14_FailedBatchIsFatal ==
  \A bk \in FatalPolls :
    /\ bk[2] = Len(memo.wait[bk[1]])
    /\ Len(memo.create) = bk[1]
    /\ \A id \in 1..Len(batches) : ~batches[id].retry /\ batches[id].batchIndex < bk[1]
    /\ ~reconciled /\ ~memo.save
    /\ pc = "idle"
    /\ job.status = "ERROR"

\* A poll of the second batch of a run returned cancelled.
C14_Witness ==
  /\ Len(memo.wait) = 2
  /\ memo.wait[2] # <<>>
  /\ memo.wait[2][Len(memo.wait[2])].status = "cancelled"

\* The status of the batch being polled is one of the provider's terminal ones.
PolledBatchTerminal ==
  batches[artifacts].status \in {"completed", "failed", "cancelled"}

\* C15: a poll that finds the batch in a terminal state ends the poll loop
\* (it breaks with the output pointer or throws); the loop does not go back to
\* sleep on a batch that is completed, failed or cancelled.
C15_TerminalBatchEndsPolling ==
  [][(/\ pc = "wait"
      /\ Len(memo.wait[batchIndex + 1]) <= attempt
      /\ PolledBatchTerminal
      /\ batches' = batches) => pc' # "sleep"]_vars

\* Every Frame row of the job has empty text.
AllFramesBlank == \A k \in 1..Len(frames) : frames[k].text = ""

\* C17: when the job's frames yield no paragraph, the document step raises
\* before any document is written or recorded: the job is left in ERROR, not
\* DONE, no document path is set, the workspace is not cleaned and the run ends.
C17_NoParagraphsIsFatal ==
  [][(/\ pc = "docs" /\ ~memo.docs
      /\ AllFramesBlank
      /\ job' # job) =>
       /\ job'.status = "ERROR"
       /\ job'.error = "Unable to build OCR paragraphs for this job."
       /\ job'.txtPath = job.txtPath /\ job'.docxPath = job.docxPath
       /\ cropsMetaFile' = cropsMetaFile
       /\ ~memo'.docs
       /\ pc' = "idle"]_vars

\* A run ended in the document step on frames that are all blank.
C17_Witness ==
  /\ pc = "idle"
  /\ reconciled
  /\ frames # <<>> /\ AllFramesBlank
  /\ job.status = "ERROR"
  /\ job.error = "Unable to build OCR paragraphs for this job."

\* The base keys present among the rows read by the Assembler.
KeysPresent == {frameRows[i].baseKey : i \in 1..Len(frameRows)}

\* The k-th base key in numeric order.
KeyAt(k) ==
  CHOOSE key \in KeysPresent :
    Cardinality({other \in KeysPresent : parseInt(other) < parseInt(key)}) = k - 1

\* The texts of the rows of a base key, by increasing global index (rows of
\* one index in the order read).
TextsOfKey(key) ==
  LET group == {i \in 1..Len(frameRows) : frameRows[i].baseKey = key}
      before(j, i) == \/ frameRows[j].index < frameRows[i].index
                      \/ frameRows[j].index = frameRows[i].index /\ j < i
      at(m) == CHOOSE i \in group : Cardinality({j \in group : before(j, i)}) = m - 1
  IN [m \in 1..Cardinality(group) |-> frameRows[at(m)].text]

\* C16: every base key present among the frames yields one paragraph, the
\* paragraphs follow the numeric order of the base keys, a paragraph is the
\* texts of its frames by global index joined with one space, and the plain
\* text has exactly one blank line between consecutive paragraphs.
C16_OneParagraphPerBaseKey ==
  (libPc = "done" /\ frameRows # <<>>) =>
    /\ Len(paragraphs) = Cardinality(KeysPresent)
    /\ \A k \in 1..Len(paragraphs) : paragraphs[k] = JoinWithSpace(TextsOfKey(KeyAt(k)))
    /\ LET lines == paragraphsWithBlankLine(paragraphs)
       IN /\ Len(lines) = 2 * Len(paragraphs) - 1
          /\ \A l \in 1..Len(lines) :
               lines[l] = IF l % 2 = 1 THEN paragraphs[(l + 1) \div 2] ELSE <<>>

\* The rows read back in another order.
Reordered(perm) == [i \in 1..Len(frameRows) |-> frameRows[perm[i]]]

ReadBackOrders ==
  {perm \in [1..Len(frameRows) -> 1..Len(frameRows)] :
     \A i, j \in 1..Len(frameRows) : i # j => perm[i] # perm[j]}

\* C18: the paragraph list does not depend on the order in which the frame
\* rows are read back (the order of the lines in the batch outputs): every
\* reordering of the same rows gives the same paragraphs.
C18_ParagraphsIgnoreRowOrder ==
  (libPc = "done" /\ entries = <<>>) =>
    \A perm \in ReadBackOrders : buildParagraphsFromFrames(Reordered(perm)) = paragraphs

\* The archive entries that are processed, in archive order.
ProcessedEntries == SelectSeq(entries, LAMBDA e : validateProcessableImageEntry(e).processable)

\* C19: the filtered archive holds at most one entry per base key, the first
\* pure-integer entry of that key in archive order, while every processable
\* entry is still processed for recognition.
C19_OneArchiveEntryPerBaseKey ==
  (libPc = "done" /\ entries # <<>>) =>
    /\ \A i, j \in 1..Len(filtered.archive) :
         i # j => filtered.archive[i].baseName # filtered.archive[j].baseName
    /\ Len(filtered.cropsMeta) = Len(ProcessedEntries)
    /\ filtered.totalImages = Len(ProcessedEntries)

MacosxDir == <<"_", "_", "M", "A", "C", "O", "S", "X", "/">>

\* The entry lies under a __MACOSX/ directory at some depth.
InMacosxTree(entryName) ==
  \E i \in 1..Len(entryName) :
    /\ i = 1 \/ entryName[i - 1] = "/"
    /\ i + Len(MacosxDir) - 1 <= Len(entryName)
    /\ SubSeq(entryName, i, i + Len(MacosxDir) - 1) = MacosxDir

\* The name of the entry after stripping any path.
BaseFilename(entryName) ==
  LET cut == {i \in 1..Len(entryName) : entryName[i] = "/"}
      last == IF cut = {} THEN 0 ELSE CHOOSE i \in cut : \A j \in cut : j <= i
  IN SubSeq(entryName, last + 1, Len(entryName))

ImageSuffixes == {<<".", "p", "n", "g">>, <<".", "j", "p", "g">>, <<".", "j", "p", "e", "g">>}

\* The base filename without its png/jpg/jpeg extension, <<>> when it has none.
ImageStem(base) ==
  LET lower == [i \in 1..Len(base) |-> ToLower(base[i])]
      fits == {x \in ImageSuffixes :
                 Len(base) > Len(x) /\ SubSeq(lower, Len(base) - Len(x) + 1, Len(base)) = x}
  IN IF fits = {} THEN <<>>
     ELSE SubSeq(base, 1, Len(base) - Len(CHOOSE x \in fits : TRUE))

\* The leading run of ASCII digits of a name.
DigitRun(name) ==
  LET stops == {i \in 1..Len(name) : name[i] \notin Digits}
      first == IF stops = {} THEN Len(name) + 1 ELSE CHOOSE i \in stops : \A j \in stops : i <= j
  IN SubSeq(name, 1, first - 1)

\* C20: an entry is processable exactly when it lies in no __MACOSX/ tree, its
\* base filename does not start with "._", has extension png, jpg or jpeg and
\* begins with an ASCII digit; its base key is the leading digit run as an
\* integer, and it goes to the archive exactly when the name without the
\* extension is that digit run.
C20_ProcessableEntries ==
  (libPc = "done" /\ entries # <<>>) =>
    \A k \in 1..Len(entries) :
      LET base == BaseFilename(entries[k])
          stem == ImageStem(base)
          r == validateProcessableImageEntry(entries[k])
      IN /\ r.processable <=>
              /\ ~InMacosxTree(entries[k])
              /\ ~(Len(base) >= 2 /\ base[1] = "." /\ base[2] = "_")
              /\ stem # <<>>
              /\ DigitRun(stem) # <<>>
         /\ r.processable =>
              /\ r.baseName = parseInt(DigitRun(stem))
              /\ r.shouldIncludeInZip <=> (stem = DigitRun(stem))

\* The leading run of characters of a name that are not ASCII digits.
NonDigitRun(name) ==
  LET stops == {i \in 1..Len(name) : name[i] \in Digits}
      first == IF stops = {} THEN Len(name) + 1 ELSE CHOOSE i \in stops : \A j \in stops : i <= j
  IN SubSeq(name, 1, first - 1)

\* Lexical order of two strings: the first differing character decides, a
\* proper prefix comes first.
LexicalBefore(a, b) ==
  \E k \in 0..Min(Len(a), Len(b)) :
    /\ \A i \in 1..k : CollationRank(a[i]) = CollationRank(b[i])
    /\ \/ k = Len(a) /\ k < Len(b)
       \/ k < Len(a) /\ k < Len(b) /\ CollationRank(a[k + 1]) < CollationRank(b[k + 1])

\* Natural order of two case-folded names, run by run: -1, 0 or 1.
RECURSIVE NaturalCompare(_, _)
NaturalCompare(a, b) ==
  IF a = <<>> \/ b = <<>>
  THEN (IF a = b THEN 0 ELSE IF a = <<>> THEN -1 ELSE 1)
  ELSE IF a[1] \in Digits /\ b[1] \in Digits
  THEN LET ra == DigitRun(a)
           rb == DigitRun(b)
       IN IF parseInt(ra) < parseInt(rb) THEN -1
          ELSE IF parseInt(ra) > parseInt(rb) THEN 1
          ELSE NaturalCompare(SubSeq(a, Len(ra) + 1, Len(a)), SubSeq(b, Len(rb) + 1, Len(b)))
  ELSE IF a[1] \in Digits THEN -1
  ELSE IF b[1] \in Digits THEN 1
  ELSE LET ra == NonDigitRun(a)
           rb == NonDigitRun(b)
       IN IF LexicalBefore(ra, rb) THEN -1
          ELSE IF LexicalBefore(rb, ra) THEN 1
          ELSE NaturalCompare(SubSeq(a, Len(ra) + 1, Len(a)), SubSeq(b, Len(rb) + 1, Len(b)))

CaseFolded(name) == [i \in 1..Len(name) |-> ToLower(name[i])]

\* x comes before y in the natural order of work items.
NaturalBefore(x, y) ==
  LET c == NaturalCompare(CaseFolded(ImageStem(x)), CaseFolded(ImageStem(y)))
  IN c < 0 \/ (c = 0 /\ LexicalBefore(x, y))

\* C21: whatever the order of the archive entries, the Builder returns the
\* crops of the processed entries in natural order: digit runs compare as
\* numbers, other runs case-folded lexically, ties by the raw names.  Two
\* different names are never in both orders, so the list returned is the same
\* for every entry order.
C21_ManifestInNaturalOrder ==
  (libPc = "done" /\ entries # <<>>) =>
    LET crops == filtered.cropsMeta
        pushed == [k \in 1..Len(ProcessedEntries) |->
                     ImageStem(BaseFilename(ProcessedEntries[k])) \o <<".", "p", "n", "g">>]
    IN /\ Len(crops) = Len(pushed)
       /\ \A k \in 1..Len(pushed) :
            Cardinality({i \in 1..Len(crops) : crops[i] = pushed[k]})
              = Cardinality({i \in 1..Len(pushed) : pushed[i] = pushed[k]})
       /\ \A i, j \in 1..Len(crops) :
            (i < j /\ crops[i] # crops[j]) =>
               NaturalBefore(crops[i], crops[j]) /\ ~NaturalBefore(crops[j], crops[i])

C21_Witness ==
  /\ libPc = "done"
  /\ entries = << <<"1", "0", ".", "p", "n", "g">>, <<"2", ".", "p", "n", "g">>,
                  <<"1", "-", "1", ".", "p", "n", "g">>, <<"1", ".", "p", "n", "g">> >>
  /\ filtered.cropsMeta = << <<"1", ".", "p", "n", "g">>, <<"1", "-", "1", ".", "p", "n", "g">>,
                             <<"2", ".", "p", "n", "g">>, <<"1", "0", ".", "p", "n", "g">> >>

\* The invocation met one of the input errors: no owner id in the event, no
\* active provider key for the owner, no archive pointer, or an archive
\* without processable entries.
InputError ==
  \/ event.userId \in {"", Undefined}
  \/ ~apiKey
  \/ storageZipKey(event, job) = ""
  \/ archive = 0

\* C22: an invocation that met an input error has submitted nothing to the
\* provider and has left the job in ERROR with a recorded message.
C22_InputErrorsAreFatal ==
  (pc = "idle" /\ run > 0 /\ InputError) =>
    /\ batches = <<>>
    /\ job.status = "ERROR"
    /\ job.error # ""

\* An invocation finishes at this step, by returning or by throwing.
InvocationEnds == pc' = "idle" /\ (pc # "idle" \/ run' # run)

\* C23: every invocation that finishes leaves the job's status DONE or ERROR,
\* never PENDING or PROCESSING.
C23_InvocationEndsDoneOrError ==
  [][InvocationEnds => job'.status \in {"DONE", "ERROR"}]_vars

\* C24: a statement executed by an invocation for one job leaves the ledger
\* row and the Frame rows of every other job as they were.
C24_RunsTouchOnlyTheirJob ==
  [][\A k \in JobIds :
       k # writer' =>
         /\ ocrJobs'[k] = ocrJobs[k]
         /\ FramesOfJob(ocrJobFrames', k) = FramesOfJob(ocrJobFrames, k)]_vars

\* C25: the provider never holds two main-loop batches for the same batch of
\* the job, also when the process died after a submission was accepted and
\* the run was resumed.
C25_NoSecondBatchAfterCrash ==
  \A a, b \in 1..Len(batches) :
    (a < b /\ ~batches[a].retry /\ ~batches[b].retry) =>
      batches[a].batchIndex # batches[b].batchIndex

\* C26: in every request line of a main-loop batch the frame index of the
\* correlation id is the position of the item in the full sorted manifest and
\* the filename is that item's filename.
C26_CorrelationIdIsGlobalPosition ==
  \A a \in 1..Len(batches) :
    ~batches[a].retry =>
      \A l \in 1..Len(batches[a].lines) :
        LET id == batches[a].lines[l]
        IN /\ id.frame \in 0..(archive - 1)
           /\ id.filename = SortedCrops(archive)[id.frame + 1]

\* Main-loop batches the provider has not finished.
NonTerminalMain(bs) == {id \in 1..Len(bs) : ~bs[id].retry /\ bs[id].status = "in_progress"}

\* A main-loop batch is created at the provider by this step.
MainBatchCreated == Len(batches') > Len(batches) /\ ~batches'[Len(batches')].retry

\* C27: when main-loop batch n is created every batch before it is recorded as
\* accepted and finished at the provider, and at no time are two main-loop
\* batches of the job unfinished at the provider.
C27_SequentialSubmission ==
  [][/\ Cardinality(NonTerminalMain(batches')) <= 1
     /\ MainBatchCreated =>
          \A m \in 0..(batches'[Len(batches')].batchIndex - 1) :
            /\ Len(memo.create) > m
            /\ batches[memo.create[m + 1]].status # "in_progress"]_vars

\* The job's Frame rows are removed and no row is put in their place.
FramesLost == frames # <<>> /\ frames' = <<>>

\* The job step moves forward to RESULTS_SAVED or beyond.
StepAdvancesPastSubmission ==
  /\ StepRank(job'.step) > StepRank(job.step)
  /\ StepRank(job'.step) >= StepRank("RESULTS_SAVED")

\* C28: no step, a process death between the delete and the insert included,
\* leaves the job without Frame rows once it had some, and the job step moves
\* to RESULTS_SAVED or beyond only when the reconciled rows are inserted.
C28_FrameReplacementIsAtomic ==
  [][/\ ~FramesLost
     /\ StepAdvancesPastSubmission => reconciled']_vars

\* The provider status of a batch is read by this step.
StatusReadExecuted == run' = run /\ Len(reads') = Len(reads) + 1

SubmissionCounted == pc \in {"wait", "sleep"}

\* Batches still needed for the items not yet submitted at the current size.
PlannedBatches == CeilDiv(archive - Len(SubmittedItems), currentBatchSize)

\* C30: between an accepted submission and the next creation the persisted
\* submittedImages is the number of items of the accepted batches and
\* totalBatches is accepted plus planned batches; submittedImages never
\* exceeds totalImages, batchesCompleted never exceeds totalBatches, and
\* submittedImages equals totalImages once the last batch is accepted.
C30_CountersMatchSubmissions ==
  /\ job.submittedImages <= job.totalImages
  /\ job.batchesCompleted <= job.totalBatches
  /\ SubmissionCounted =>
       /\ job.submittedImages = Len(SubmittedItems)
       /\ job.totalBatches = Len(MainBatches) + PlannedBatches
       /\ batchIndex + 1 >= Len(cropsChunks) => job.submittedImages = job.totalImages

\* C31: once the Assembler has marked the job DONE and cleaned up, no request
\* manifest of the job is left on local storage, the manifest of the
\* supplementary batch included.
C31_NoManifestLeftAfterDone ==
  job.status = "DONE" => jsonlFiles = {}

\* The model answered nothing for the item, or the sentinel.
BlankAnswer(filename) == ModelText(filename) \in {"", "<EMPTY>"}

\* The correlation ids of the output lines of the processed main batches that
\* carry no provider error: every request line that was neither dropped nor
\* answered with an error.
ErrorFreeIds ==
  UNION {{batches[processedBatches[i].batchId].lines[p] :
            p \in {q \in 1..Len(batches[processedBatches[i].batchId].lines) :
                     /\ q # batches[processedBatches[i].batchId].errPos
                     /\ q # batches[processedBatches[i].batchId].dropPos}} :
         i \in 1..Len(processedBatches)}

\* Every error-free line has a frame in `fr` for its item, with empty text
\* when the answer was blank.
KeepsFrameOfEveryLine(fr) ==
  /\ {<<id.filename, id.frame>> : id \in ErrorFreeIds}
       \subseteq {<<fr[k].filename, fr[k].index>> : k \in 1..Len(fr)}
  /\ {<<id.filename, id.frame>> : id \in {x \in ErrorFreeIds : BlankAnswer(x.filename)}}
       \subseteq {<<fr[k].filename, fr[k].index>> : k \in {j \in 1..Len(fr) : fr[j].text = ""}}

\* C32: the Reconciler keeps a frame for every output line without provider
\* error, with empty text when the answer is empty or the sentinel, counts it
\* toward the total, and stores it among the Frame rows.
C32_BlankFramesAreKept ==
  /\ pc = "saving" =>
       /\ KeepsFrameOfEveryLine(stepLocal.framesToPersist)
       /\ stepLocal.totalProcessedLines >= Cardinality(ErrorFreeIds)
  /\ (reconciled /\ pc = "save") => KeepsFrameOfEveryLine(frames)

\* The Frame rows were saved and hold a row with empty text for an item whose
\* answer was the sentinel and whose line carried no error.
C32_Witness ==
  /\ reconciled /\ pc = "save"
  /\ \E id \in ErrorFreeIds :
       /\ BlankAnswer(id.filename)
       /\ \E k \in 1..Len(frames) :
            frames[k].filename = id.filename /\ frames[k].text = ""

\* The correlation ids the Reconciler expects for the manifest.
ExpectedIdsOfManifest ==
  {e.customId : e \in Range(expectedEntries(SortedCrops(archive)))}

\* The correlation ids the Submitter wrote in the request lines of the main
\* batches.
SubmittedIds ==
  UNION {Range(batches[a].lines) : a \in {b \in 1..Len(batches) : ~batches[b].retry}}

\* C33: every correlation id the Submitter wrote is the id the Reconciler
\* derives from the manifest for that item, and no item with an error-free
\* result in the main outputs is sent again as missing.
C33_ExpectedIdsAreSubmittedIds ==
  /\ SubmittedIds \subseteq ExpectedIdsOfManifest
  /\ (pc = "saving" /\ stepLocal.retryBatch # 0) =>
       {id.filename : id \in Range(batches[stepLocal.retryBatch].lines)}
         \cap {id.filename : id \in ErrorFreeIds} = {}

\* The batch size at which the provider accepted the latest submission.
LastAcceptedSize ==
  LET acc == {i \in 1..Len(attemptLog) : attemptLog[i].accepted}
  IN attemptLog[CHOOSE i \in acc : \A j \in acc : j <= i].size

\* C34: while a batch is polled, also in a re-executed function body, the
\* current batch size is the size at which the latest submission was accepted
\* and no chunk planned for a later batch is larger than it.
C34_ReplayRestoresReduction ==
  SubmissionCounted =>
    /\ currentBatchSize = LastAcceptedSize
    /\ \A c \in (batchIndex + 2)..Len(cropsChunks) :
         Len(cropsChunks[c]) <= LastAcceptedSize

\* A new invocation starts for a job whose documents are already recorded.
ReinvokedWhenCompleted == pc = "idle" /\ run' = run + 1 /\ AlreadyCompleted(job)

\* C35: an invocation for a job at RESULTS_SAVED or DOCS_BUILT with both
\* document pointers set returns at once and changes nothing: no ledger
\* write, no Frame change, no preprocessing, no provider submission.
C35_CompletedJobIsLeftAlone ==
  [][ReinvokedWhenCompleted =>
       /\ pc' = "idle"
       /\ job' = job
       /\ frames' = frames
       /\ preprocessRuns' = preprocessRuns
       /\ batches' = <<>>]_vars

\* C36: in every state of the ledger a job that is DONE has step DOCS_BUILT
\* and both document pointers recorded.
C36_DoneImpliesDocsBuilt ==
  job.status = "DONE" =>
    /\ job.step = "DOCS_BUILT"
    /\ job.txtPath
    /\ job.docxPath

\* C37: parsing the correlation id built from a job id, a batch ordinal, a
\* global index and a processable filename recovers that filename and index.
C37_ParseInvertsCustomId ==
  (libPc = "done" /\ idRequest # NoIdRequest) =>
    /\ idParse.matched
    /\ idParse.filename = idRequest.filename
    /\ idParse.index = idRequest.globalIndex

\* C38: two distinct processable entries of one archive never receive the
\* same crop storage key (nor, therefore, the same crop filename).
C38_CropKeysAreDistinct ==
  (libPc = "done" /\ entries # <<>>) =>
    \A i, j \in 1..Len(filtered.cropsMeta) :
      i # j => getJobCropKey(filtered.cropsMeta[i]) # getJobCropKey(filtered.cropsMeta[j])

\* C39: with at least one processable entry, an accepting provider that
\* completes every batch with one error-free line per item and text for at
\* least one frame, the job eventually is DONE with step DOCS_BUILT.
LadderExhausted == job.status = "ERROR" /\ job.error = "TOKEN_LIMIT_ERROR"

BatchAnsweredBadly ==
  \E id \in 1..Len(batches) :
    \/ batches[id].errPos # 0
    \/ batches[id].dropPos # 0
    \/ batches[id].status = "completed" /\ ~batches[id].outputFileId

C39_EventuallyDone ==
  <>(\/ job.status = "DONE" /\ job.step = "DOCS_BUILT"
     \/ LadderExhausted
     \/ BatchAnsweredBadly)

\* C40: across crashes and re-executions of the reconciliation step of one
\* run, at most one supplementary retry batch is created at the provider.
RetryBatchesCreated == {id \in 1..Len(batches) : batches[id].retry}

C40_OneSupplementaryBatch == Cardinality(RetryBatchesCreated) <= 1

====
